---- MODULE Spec2Model ----
(***************************************************************************)
(* Model of go-bitflow.                                                    *)
(*                                                                         *)
(* 1. The batch aggregation stage (pipeline.BatchProcessor,                *)
(*    src/pipeline_flags.go), specification Spec.  Two threads are         *)
(*    modelled:                                                            *)
(*   - the caller, which runs Sample() and Close() one after the other     *)
(*     (the code relies on Sample()/Close() being synchronized             *)
(*     externally);                                                        *)
(*   - the flush worker goroutine started by Start() (loopFlush).          *)
(*    Fields that are read or written without holding flushTrigger.L are   *)
(*    accessed in separate steps, one per memory access, so that every     *)
(*    interleaving of the unsynchronised accesses is explored.             *)
(*                                                                         *)
(* 2. The binary marshaller (sample.BinaryMarshaller,                      *)
(*    src/analysis-pipeline/analysis_basic.go), specification SpecBin: a   *)
(*    writer appends header and sample frames to a byte stream, a reader   *)
(*    decodes a prefix of that stream frame by frame.                      *)
(*                                                                         *)
(* 3. The active TCP sink (sample.TCPSink, src/sample/transport_tcp.go),   *)
(*    specification SpecSink: the caller of Header(), Sample() and         *)
(*    Close(), and one writer goroutine (tcpWriteConn.Run) for every       *)
(*    connection that was dialed.                                          *)
(*                                                                         *)
(* 4. The active TCP source (sample.TCPSource, same file), specification   *)
(*    SpecSource: the loop goroutine that dials and reads, and Stop().     *)
(***************************************************************************)
EXTENDS Integers, Sequences, FiniteSets, TLC

\* ---------------------------------------------------------------- bounds
MaxSamples == 3
MaxTime == 3

\* ------------------------------------------------------- values and inputs
Nil == "nil"
NoErr == <<>>
Headers == {"h1", "h2"}
TagValues == {"A", "B"}
FlushTags == {"", "job"}
FlushTimeouts == {0, 1}
SinkBadIds == {0, 2}
StepChains ==
    { <<>>, <<"identity">>, <<"reverse", "rehead">>, <<"dropall", "fail">>,
      <<"fail">>, <<"nilempty">>, <<"nilhdr", "identity">> }

VARIABLES
    FlushTag, FlushTimeout, Steps, sinkBad,
    LastHeader, samples, shutdown, lastAutoFlushError, lastSample,
    lastFlushTag, flushHeader, flushError, lock, now,
    pcC, cSample, cOld, cErr, cBuf,
    pcW, wHdr, wSamples, wErr,
    inputs, out, rets, trig, flushLog, stashed, autoSince, errChan, sinkClosed

config == <<FlushTag, FlushTimeout, Steps, sinkBad>>
fields == <<LastHeader, samples, shutdown, lastAutoFlushError, lastSample,
            lastFlushTag, flushHeader, flushError>>
callerLocals == <<cSample, cOld, cErr, cBuf>>
workerLocals == <<wHdr, wSamples, wErr>>
history == <<inputs, out, rets, trig, flushLog, stashed, autoSince, errChan,
             sinkClosed>>

\* the byte stream of the binary marshaller, its writer and its reader
VARIABLES
    wire, written, binPc, cut, rpos, rHeader, reads

binVars == <<wire, written, binPc, cut, rpos, rHeader, reads>>

\* the TCP sink, its connections with their writer goroutines, its caller
VARIABLES
    stopped, sinkConn, sinkLastHeader, conns, pcS, sending, sinkRets

sinkVars == <<stopped, sinkConn, sinkLastHeader, conns, pcS, sending, sinkRets>>

\* the TCP source, its loop goroutine, the connections it dialed, and what
\* its downstream sink received
VARIABLES
    srcStop, srcConn, pcL, lConn, peers, srcOut, srcDials

srcVars == <<srcStop, srcConn, pcL, lConn, peers, srcOut, srcDials>>

\* an endpoint description string and what a parser made of it
VARIABLES
    endpoint, parsed

epVars == <<endpoint, parsed>>

\* a metric mapper (filter, mapper, renamer or variance filter), the state of
\* its MetricMapperHelper, and the calls made so far with their results
VARIABLES
    mapper, helper, mapCalls

mapVars == <<mapper, helper, mapCalls>>

\* a PickHead step, what it forwarded and what its calls returned
VARIABLES
    head, headOut, headRets

headVars == <<head, headOut, headRets>>

\* a SampleSorter, the batch it is given and what ProcessBatch returned
VARIABLES
    sorter, batch, sorted

sortVars == <<sorter, batch, sorted>>

\* a tagging processor with the sample it is given, and the sample it returned
VARIABLES
    tagger, tagged

tagVars == <<tagger, tagged>>

\* a node of the DecisionMaker, and the updates it has seen
VARIABLES
    node, nodeLog

nodeVars == <<node, nodeLog>>

\* a PCA step with the batch it is given, and what it returned
VARIABLES
    pca, pcaOut

pcaVars == <<pca, pcaOut>>

lateVars == <<tagVars, nodeVars, pcaVars>>

\* the components that are functions of their input
pureVars == <<epVars, mapVars, headVars, sortVars, lateVars>>
others == <<binVars, sinkVars, srcVars, pureVars>>
batchVars == <<config, fields, lock, now, pcC, callerLocals, pcW,
               workerLocals, history>>
vars == <<others, config, fields, lock, now, pcC, callerLocals, pcW,
          workerLocals, history>>

\* nothing written, nothing read
BinIdle ==
    /\ wire = <<>> /\ written = <<>> /\ binPc = "write"
    /\ cut = 0 /\ rpos = 0 /\ rHeader = <<>> /\ reads = <<>>

\* TCPSink after Start(): not stopped, no connection, the zero header
SinkIdle ==
    /\ stopped = FALSE /\ sinkConn = 0 /\ sinkLastHeader = 0
    /\ conns = <<>> /\ pcS = "idle" /\ sending = 0 /\ sinkRets = <<>>

\* TCPSource after Start(): the loop is about to run, nothing is dialed
SourceIdle ==
    /\ srcStop = FALSE /\ srcConn = 0 /\ pcL = "top" /\ lConn = 0
    /\ peers = <<>> /\ srcOut = <<>> /\ srcDials = 0

\* no endpoint description given
EpIdle == endpoint = <<>> /\ parsed = <<>>

\* no metric mapper, no PickHead, no SampleSorter
MapIdle == mapper = <<>> /\ helper = <<>> /\ mapCalls = <<>>
HeadIdle == head = <<>> /\ headOut = <<>> /\ headRets = <<>>
SortIdle == sorter = <<>> /\ batch = <<>> /\ sorted = <<>>

\* no tagging processor, no DecisionMaker node, no PCA step
TagIdle == tagger = <<>> /\ tagged = <<>>
NodeIdle == node = <<>> /\ nodeLog = <<>>
PcaIdle == pca = <<>> /\ pcaOut = <<>>
LateIdle == TagIdle /\ NodeIdle /\ PcaIdle
PureIdle == EpIdle /\ MapIdle /\ HeadIdle /\ SortIdle

\* ------------------------------------------------------------ pure helpers
RECURSIVE Reverse(_)
Reverse(s) == IF s = <<>> THEN <<>> ELSE Append(Reverse(Tail(s)), Head(s))

\* bitflow.Sample.Tag: the value of the tag, "" when the sample has none
Tag(sample, key) == IF key = "job" THEN sample.tag ELSE ""

\* bitflow.HeaderChecker.InitializedHeaderChanged: true when a header was
\* seen before and the new one differs from it
InitializedHeaderChanged(last, header) == last /= Nil /\ last /= header

\* BatchProcessingStep.ProcessBatch for the kinds of step of the model
ProcessBatch(step, header, smp) ==
    CASE step = "identity" -> [header |-> header, samples |-> smp, err |-> NoErr]
      [] step = "reverse"  -> [header |-> header, samples |-> Reverse(smp), err |-> NoErr]
      [] step = "rehead"   -> [header |-> "h3", samples |-> smp, err |-> NoErr]
      [] step = "dropall"  -> [header |-> header, samples |-> <<>>, err |-> NoErr]
      [] step = "nilhdr"   -> [header |-> Nil, samples |-> smp, err |-> NoErr]
      [] step = "nilempty" -> [header |-> Nil, samples |-> <<>>, err |-> NoErr]
      [] OTHER             -> [header |-> Nil, samples |-> <<>>, err |-> <<"step">>]

\* BatchProcessor.executeSteps, from step i on. trace lists what each executed
\* step returned; panic is the nil dereference of len(header.Fields) in the
\* log statements at the head of the loop body.
RECURSIVE StepsFromNoEmptyCheck(_, _, _, _)
StepsFromNoEmptyCheck(i, smp, header, trace) ==
    IF i > Len(Steps)
    THEN [samples |-> smp, header |-> header, err |-> NoErr, trace |-> trace, panic |-> FALSE]
    ELSE IF header = Nil
    THEN [samples |-> smp, header |-> header, err |-> NoErr, trace |-> trace, panic |-> TRUE]
    ELSE LET r == ProcessBatch(Steps[i], header, smp)
         IN IF r.err /= NoErr
            THEN [samples |-> <<>>, header |-> Nil, err |-> r.err,
                  trace |-> Append(trace, r), panic |-> FALSE]
            ELSE StepsFromNoEmptyCheck(i + 1, r.samples, r.header, Append(trace, r))

RECURSIVE StepsFrom(_, _, _, _)
StepsFrom(i, smp, header, trace) ==
    IF i > Len(Steps)
    THEN [samples |-> smp, header |-> header, err |-> NoErr, trace |-> trace, panic |-> FALSE]
    ELSE IF header = Nil
    THEN [samples |-> smp, header |-> header, err |-> NoErr, trace |-> trace, panic |-> TRUE]
    ELSE IF Len(smp) = 0
    THEN [samples |-> smp, header |-> header, err |-> NoErr, trace |-> trace, panic |-> FALSE]
    ELSE LET r == ProcessBatch(Steps[i], header, smp)
         IN IF r.err /= NoErr
            THEN [samples |-> <<>>, header |-> Nil, err |-> r.err,
                  trace |-> Append(trace, r), panic |-> FALSE]
            ELSE StepsFrom(i + 1, r.samples, r.header, Append(trace, r))

executeSteps(smp, header) == StepsFrom(1, smp, header, <<>>)

\* The forwarding loop of executeFlush: NoopProcessor.Sample for each sample
\* until the downstream fails. The failing call is part of the result.
RECURSIVE ForwardAll(_, _)
ForwardAll(smp, header) ==
    IF smp = <<>> THEN [calls |-> <<>>, err |-> NoErr]
    ELSE LET rest == ForwardAll(Tail(smp), header)
         IN [calls |-> <<[sample |-> Head(smp), header |-> header]>> \o rest.calls,
             err |-> IF Head(smp).id = sinkBad THEN <<"flushing">> ELSE rest.err]

RECURSIVE Forward(_, _)
Forward(smp, header) ==
    IF smp = <<>> THEN [calls |-> <<>>, err |-> NoErr]
    ELSE IF Head(smp).id = sinkBad
    THEN [calls |-> <<[sample |-> Head(smp), header |-> header]>>,
          err |-> <<"flushing">>]
    ELSE LET rest == Forward(Tail(smp), header)
         IN [calls |-> <<[sample |-> Head(smp), header |-> header]>> \o rest.calls,
             err |-> rest.err]

\* BatchProcessor.executeFlush after the buffer was taken (p.samples = nil)
flushBatch(smp, header) ==
    LET r == executeSteps(smp, header)
    IN IF r.panic
       THEN [calls |-> <<>>, err |-> NoErr, panic |-> TRUE, steps |-> r]
       ELSE IF r.err /= NoErr
       THEN [calls |-> <<>>, err |-> r.err, panic |-> FALSE, steps |-> r]
       ELSE IF r.header = Nil
       THEN [calls |-> <<>>, err |-> <<"nilheader">>, panic |-> FALSE, steps |-> r]
       ELSE LET f == Forward(r.samples, r.header)
            IN [calls |-> f.calls, err |-> f.err, panic |-> FALSE, steps |-> r]

\* BatchProcessor.flushTimedOut
flushTimedOutNoZeroCheck ==
    IF FlushTimeout <= 0 THEN FALSE
    ELSE now - lastSample >= FlushTimeout

flushTimedOut ==
    IF FlushTimeout <= 0 \/ lastSample = 0 THEN FALSE
    ELSE now - lastSample >= FlushTimeout

\* one entry of the flush log
LogEntry(by, header, smp, f) ==
    [by |-> by, call |-> Len(inputs), header |-> header, batch |-> smp,
     trace |-> f.steps.trace, retHeader |-> f.steps.header,
     retSamples |-> f.steps.samples, stepErr |-> f.steps.err,
     calls |-> f.calls, err |-> f.err, panic |-> f.panic]

NoFlush == [calls |-> <<>>, err |-> NoErr, panic |-> FALSE,
            steps |-> [samples |-> <<>>, header |-> Nil, err |-> NoErr,
                       trace |-> <<>>, panic |-> FALSE]]

alive == pcW /= "panicked"

\* Sample(), lines 586-591: flush on a changed header, and on a changed
\* FlushTag value unless this is the first sample
flushNeededAlways(oldHeader, changed, val) ==
    IF FlushTag /= "" THEN changed \/ val /= lastFlushTag ELSE changed

flushNeeded(oldHeader, changed, val) ==
    IF FlushTag /= "" /\ oldHeader /= Nil
    THEN changed \/ val /= lastFlushTag
    ELSE changed

\* Sample(), lines 599-601: the error of the triggered flush goes first
pickErrorStashed(err) == lastAutoFlushError

pickError(err) == IF err = NoErr THEN lastAutoFlushError ELSE err

\* triggerFlush, line 625: the requester waits while its request is pending
flushPendingNever == FALSE

flushPending == flushHeader /= Nil

\* Close(), lines 614-616: p.Error(err) puts the error on the error channel
reportErrorDropped(err) == errChan

reportError(err) == IF err /= NoErr THEN Append(errChan, err) ELSE errChan

\* can a flush with this chain of steps reach the forwarding loop
Forwards(chain) ==
    \A i \in 1..Len(chain) : chain[i] \in {"identity", "reverse", "rehead"}

\* The configurations explored: a rejecting downstream only behind chains that
\* forward, and FlushTag together with FlushTimeout for the identity chain.
Configs ==
    {c \in [FlushTag : FlushTags, FlushTimeout : FlushTimeouts,
            Steps : StepChains, sinkBad : SinkBadIds] :
        /\ c.sinkBad = 0 \/ Forwards(c.Steps)
        /\ \/ c.FlushTag = "" \/ c.FlushTimeout = 0
           \/ c.Steps = <<"identity">> /\ c.sinkBad = 0}

\* the tag values worth feeding: without a FlushTag the code reads no tag
SampleTags == IF FlushTag = "" THEN {"A"} ELSE TagValues

\* ------------------------------------------------------------------- Init
\* BatchProcessor after construction and Start(), whatever its configuration
BatchIdle ==
    /\ LastHeader = Nil
    /\ samples = <<>>
    /\ shutdown = FALSE
    /\ lastAutoFlushError = NoErr
    /\ lastSample = 0
    /\ lastFlushTag = ""
    /\ flushHeader = Nil
    /\ flushError = NoErr
    /\ lock = "free"
    /\ now = 1
    /\ pcC = "idle"
    /\ cSample = Nil /\ cOld = Nil /\ cErr = NoErr /\ cBuf = <<>>
    /\ pcW = "wait"
    /\ wHdr = Nil /\ wSamples = <<>> /\ wErr = NoErr
    /\ inputs = <<>> /\ out = <<>> /\ rets = <<>> /\ trig = {}
    /\ flushLog = <<>> /\ stashed = <<>> /\ autoSince = 0
    /\ errChan = <<>> /\ sinkClosed = 0

Init ==
    /\ \E c \in Configs :
          /\ FlushTag = c.FlushTag /\ FlushTimeout = c.FlushTimeout
          /\ Steps = c.Steps /\ sinkBad = c.sinkBad
    /\ BatchIdle
    /\ BinIdle
    /\ SinkIdle
    /\ SourceIdle
    /\ EpIdle /\ MapIdle /\ HeadIdle /\ SortIdle /\ LateIdle

\* ------------------------------------------------------------ the caller
\* Sample(), lines 585-596: header check, FlushTag check, decision to flush
SampleBegin(header, tag) ==
    /\ alive /\ pcC = "idle" /\ Len(inputs) < MaxSamples
    /\ LET s == [id |-> Len(inputs) + 1, tag |-> tag]
           changed == InitializedHeaderChanged(LastHeader, header)
           val == Tag(s, FlushTag)
           flush == flushNeeded(LastHeader, changed, val)
       IN /\ cSample' = s
          /\ cOld' = LastHeader
          /\ LastHeader' = header
          /\ lastFlushTag' = IF FlushTag /= "" THEN val ELSE lastFlushTag
          /\ inputs' = Append(inputs, [sample |-> s, header |-> header])
          /\ trig' = IF flush THEN trig \cup {Len(inputs) + 1} ELSE trig
          /\ pcC' = IF flush THEN "trigger"
                    ELSE IF FlushTimeout > 0 THEN "stamp" ELSE "read"
    /\ cErr' = NoErr
    /\ UNCHANGED <<others, config, samples, shutdown, lastAutoFlushError, lastSample,
                   flushHeader, flushError, lock, now, cBuf, pcW, workerLocals,
                   out, rets, flushLog, stashed, autoSince, errChan,
                   sinkClosed>>

\* triggerFlush(oldHeader, false), lines 620-626: publish the request, wait
SampleTrigger ==
    /\ alive /\ pcC = "trigger" /\ lock = "free"
    /\ flushHeader' = cOld
    /\ shutdown' = FALSE
    /\ pcC' = "waitFlush"
    /\ UNCHANGED <<others, config, LastHeader, samples, lastAutoFlushError, lastSample,
                   lastFlushTag, flushError, lock, now, callerLocals, pcW,
                   workerLocals, history>>

\* triggerFlush, lines 625-630: woken once flushHeader is nil again
SampleFlushed ==
    /\ alive /\ pcC = "waitFlush" /\ lock = "free"
    /\ ~flushPending
    /\ cErr' = flushError
    /\ flushError' = NoErr
    /\ pcC' = IF FlushTimeout > 0 THEN "stamp" ELSE "read"
    /\ UNCHANGED <<others, config, LastHeader, samples, shutdown, lastAutoFlushError,
                   lastSample, lastFlushTag, flushHeader, lock, now, cSample,
                   cOld, cBuf, pcW, workerLocals, history>>

\* Sample(), line 598
SampleStamp ==
    /\ alive /\ pcC = "stamp"
    /\ lastSample' = now
    /\ pcC' = "readErr"
    /\ UNCHANGED <<others, config, LastHeader, samples, shutdown, lastAutoFlushError,
                   lastFlushTag, flushHeader, flushError, lock, now,
                   callerLocals, pcW, workerLocals, history>>

\* Sample(), lines 599-601
SampleReadErr ==
    /\ alive /\ pcC = "readErr"
    /\ cErr' = pickError(cErr)
    /\ pcC' = "clearErr"
    /\ UNCHANGED <<others, config, fields, lock, now, cSample, cOld, cBuf, pcW,
                   workerLocals, history>>

\* Sample(), line 602
SampleClearErr ==
    /\ alive /\ pcC = "clearErr"
    /\ lastAutoFlushError' = NoErr
    /\ pcC' = "read"
    /\ UNCHANGED <<others, config, LastHeader, samples, shutdown, lastSample,
                   lastFlushTag, flushHeader, flushError, lock, now,
                   callerLocals, pcW, workerLocals, history>>

\* Sample(), line 604: the read of p.samples that append() starts with
SampleRead ==
    /\ alive /\ pcC = "read"
    /\ cBuf' = samples
    /\ pcC' = "append"
    /\ UNCHANGED <<others, config, fields, lock, now, cSample, cOld, cErr, pcW,
                   workerLocals, history>>

\* Sample(), lines 604-605: the write of the appended slice, and the return
SampleAppend ==
    /\ alive /\ pcC = "append"
    /\ samples' = Append(cBuf, cSample)
    /\ rets' = Append(rets, cErr)
    /\ autoSince' = 0
    /\ pcC' = "idle"
    /\ cSample' = Nil /\ cOld' = Nil /\ cErr' = NoErr /\ cBuf' = <<>>
    /\ UNCHANGED <<others, config, LastHeader, shutdown, lastAutoFlushError, lastSample,
                   lastFlushTag, flushHeader, flushError, lock, now, pcW,
                   workerLocals, inputs, out, trig, flushLog, stashed, errChan,
                   sinkClosed>>

\* Close(), lines 609-614 and triggerFlush(header, true), lines 620-626
CloseBegin ==
    /\ alive /\ pcC = "idle" /\ lock = "free"
    /\ flushHeader' = LastHeader
    /\ shutdown' = TRUE
    /\ pcC' = "closeWait"
    /\ UNCHANGED <<others, config, LastHeader, samples, lastAutoFlushError, lastSample,
                   lastFlushTag, flushError, lock, now, callerLocals, pcW,
                   workerLocals, history>>

\* triggerFlush returns into Close(): p.Error(err), lines 614-616, then the
\* deferred p.NoopProcessor.Close(), line 609
CloseEnd ==
    /\ alive /\ pcC = "closeWait" /\ lock = "free"
    /\ ~flushPending
    /\ errChan' = reportError(flushError)
    /\ flushError' = NoErr
    /\ sinkClosed' = sinkClosed + 1
    /\ pcC' = "closed"
    /\ UNCHANGED <<others, config, LastHeader, samples, shutdown, lastAutoFlushError,
                   lastSample, lastFlushTag, flushHeader, lock, now,
                   callerLocals, pcW, workerLocals, inputs, out, rets, trig,
                   flushLog, stashed, autoSince>>

\* ---------------------------------------------------- the flush worker
\* the wait loop of line 642 ends without a timeout: a flush was requested,
\* or the processor is shutting down
flushRequestedHeaderOnly == flushHeader /= Nil
flushRequested == flushHeader /= Nil \/ shutdown

\* waitAndExecuteFlush, lines 640-649 and 658-662: a requested flush (or the
\* shutdown), executed while the requester waits for the broadcast
WorkerFlush ==
    /\ pcW = "wait" /\ lock = "free"
    /\ flushRequested
    /\ LET doit == Len(samples) /= 0 /\ flushHeader /= Nil
           f == IF doit THEN flushBatch(samples, flushHeader) ELSE NoFlush
       IN /\ samples' = IF doit THEN <<>> ELSE samples
          /\ out' = out \o f.calls
          /\ flushLog' = Append(flushLog,
                 LogEntry(IF shutdown THEN "close" ELSE "sample",
                          flushHeader, IF doit THEN samples ELSE <<>>, f))
          /\ flushError' = f.err
          /\ flushHeader' = IF f.panic THEN flushHeader ELSE Nil
          /\ pcW' = IF f.panic THEN "panicked"
                    ELSE IF shutdown THEN "done" ELSE "wait"
    /\ UNCHANGED <<others, config, LastHeader, shutdown, lastAutoFlushError, lastSample,
                   lastFlushTag, lock, now, pcC, callerLocals, workerLocals,
                   inputs, rets, trig, stashed, autoSince, errChan, sinkClosed>>

\* waitAndExecuteFlush, lines 640-651: the timeout elapsed with nothing
\* requested; the worker keeps the lock and reads p.checker.LastHeader
WorkerTimeout ==
    /\ pcW = "wait" /\ lock = "free"
    /\ flushHeader = Nil /\ ~shutdown /\ flushTimedOut
    /\ lock' = "worker"
    /\ wHdr' = LastHeader
    /\ pcW' = "autoRead"
    /\ UNCHANGED <<others, config, fields, now, pcC, callerLocals, wSamples, wErr,
                   history>>

\* executeFlush, lines 673-676: the read of p.samples
WorkerAutoRead ==
    /\ pcW = "autoRead"
    /\ wSamples' = samples
    /\ pcW' = IF Len(samples) = 0 \/ wHdr = Nil THEN "autoStamp" ELSE "autoFlush"
    /\ UNCHANGED <<others, config, fields, lock, now, pcC, callerLocals, wHdr, wErr,
                   history>>

\* executeFlush, lines 677-691: p.samples = nil, the steps, the forwarding
WorkerAutoFlush ==
    /\ pcW = "autoFlush"
    /\ LET f == flushBatch(wSamples, wHdr)
       IN /\ samples' = <<>>
          /\ out' = out \o f.calls
          /\ flushLog' = Append(flushLog, LogEntry("auto", wHdr, wSamples, f))
          /\ wErr' = f.err
          /\ autoSince' = autoSince + 1
          /\ pcW' = IF f.panic THEN "panicked"
                    ELSE IF f.err /= NoErr THEN "autoErr" ELSE "autoStamp"
    /\ UNCHANGED <<others, config, LastHeader, shutdown, lastAutoFlushError, lastSample,
                   lastFlushTag, flushHeader, flushError, lock, now, pcC,
                   callerLocals, wHdr, wSamples, inputs, rets, trig, stashed,
                   errChan, sinkClosed>>

\* waitAndExecuteFlush, lines 652-655: stash the error of the auto-flush
WorkerAutoErr ==
    /\ pcW = "autoErr"
    /\ lastAutoFlushError' = <<"auto">> \o wErr
    /\ stashed' = Append(stashed, [err |-> <<"auto">> \o wErr,
                                    call |-> Len(inputs), busy |-> pcC /= "idle"])
    /\ pcW' = "autoStamp"
    /\ UNCHANGED <<others, config, LastHeader, samples, shutdown, lastSample,
                   lastFlushTag, flushHeader, flushError, lock, now, pcC,
                   callerLocals, workerLocals, inputs, out, rets, trig,
                   flushLog, autoSince, errChan, sinkClosed>>

\* waitAndExecuteFlush, lines 656 and 661-662
WorkerAutoStamp ==
    /\ pcW = "autoStamp"
    /\ lastSample' = now
    /\ flushHeader' = Nil
    /\ lock' = "free"
    /\ pcW' = "wait"
    /\ wHdr' = Nil /\ wSamples' = <<>> /\ wErr' = NoErr
    /\ UNCHANGED <<others, config, LastHeader, samples, shutdown, lastAutoFlushError,
                   lastFlushTag, flushError, now, pcC, callerLocals, history>>

\* Wall-clock time. The code reads it (time.Now()) only when FlushTimeout > 0,
\* to stamp lastSample and to compare now - lastSample with FlushTimeout, so
\* time is let pass only while that comparison can still change.
Tick ==
    /\ alive /\ FlushTimeout > 0 /\ now < MaxTime
    /\ lastSample /= 0 /\ now - lastSample < FlushTimeout
    /\ now' = now + 1
    /\ UNCHANGED <<others, config, fields, lock, pcC, callerLocals, pcW, workerLocals,
                   history>>

Next ==
    \/ \E h \in Headers, t \in SampleTags : SampleBegin(h, t)
    \/ SampleTrigger
    \/ SampleFlushed
    \/ SampleStamp
    \/ SampleReadErr
    \/ SampleClearErr
    \/ SampleRead
    \/ SampleAppend
    \/ CloseBegin
    \/ CloseEnd
    \/ WorkerFlush
    \/ WorkerTimeout
    \/ WorkerAutoRead
    \/ WorkerAutoFlush
    \/ WorkerAutoErr
    \/ WorkerAutoStamp
    \/ Tick

Spec == Init /\ [][Next]_vars

\* The steps of the flush worker goroutine. The goroutine is scheduled and
\* WaitTimeout returns when its timer fires, so the worker is treated fairly.
Worker ==
    \/ WorkerFlush
    \/ WorkerTimeout
    \/ WorkerAutoRead
    \/ WorkerAutoFlush
    \/ WorkerAutoErr
    \/ WorkerAutoStamp

\* A processor configured with a FlushTimeout, no FlushTag and identity steps
InitTimeout ==
    /\ Init
    /\ FlushTimeout > 0 /\ FlushTag = ""
    /\ \A i \in 1..Len(Steps) : Steps[i] = "identity"

SpecTimeout == InitTimeout /\ [][Next]_vars /\ WF_vars(Worker)

\* Close() is a call in progress on the caller's thread, which is scheduled:
\* once triggerFlush can return, it does.
\* The FlushTag plays no part in Close(), nor does the sample the downstream
\* sink refuses.
InitClose == Init /\ FlushTag = "" /\ sinkBad = 0

\* the samples received before Close()
MaxCloseSamples == 2
NextClose ==
    \/ \E h \in Headers, t \in SampleTags :
          Len(inputs) < MaxCloseSamples /\ SampleBegin(h, t)
    \/ SampleTrigger
    \/ SampleFlushed
    \/ SampleStamp
    \/ SampleReadErr
    \/ SampleClearErr
    \/ SampleRead
    \/ SampleAppend
    \/ CloseBegin
    \/ CloseEnd
    \/ Worker
    \/ Tick

SpecClose == InitClose /\ [][NextClose]_vars /\ WF_vars(Worker) /\ WF_vars(CloseEnd)

\* ------------------------------------------------ observations for claims
OnlyIdentity == \A i \in 1..Len(Steps) : Steps[i] = "identity"
InSamples == [i \in 1..Len(inputs) |-> inputs[i].sample]
OutSamples == [i \in 1..Len(out) |-> out[i].sample]
Occurrences(seq, id) == Cardinality({i \in 1..Len(seq) : seq[i].id = id})
\* the header a sample arrived with
HeaderOf(s) == inputs[s.id].header
\* has call k left triggerFlush
Past(k) == k < Len(inputs) \/ (k = Len(inputs) /\ pcC \notin {"trigger", "waitFlush"})
\* the downstream calls of each flush that forwarded something
RECURSIVE BatchesOf(_)
BatchesOf(log) ==
    IF log = <<>> THEN <<>>
    ELSE IF Head(log).calls = <<>> THEN BatchesOf(Tail(log))
    ELSE <<Head(log).calls>> \o BatchesOf(Tail(log))
\* a sequence of (sample, header) pairs cut where the tag value or the header
\* differs from the one before
RECURSIVE RunsOf(_)
RunsOf(seq) ==
    IF seq = <<>> THEN <<>>
    ELSE LET rest == RunsOf(Tail(seq))
         IN IF rest /= <<>> /\ Head(rest)[1].sample.tag = Head(seq).sample.tag
                            /\ Head(rest)[1].header = Head(seq).header
            THEN <<(<<Head(seq)>> \o Head(rest))>> \o Tail(rest)
            ELSE <<(<<Head(seq)>>)>> \o rest
Buffered == [i \in 1..Len(samples) |-> [sample |-> samples[i], header |-> LastHeader]]

\* C1: with only identity steps and a downstream that never fails, after
\* Close() every sample passed to Sample() was forwarded exactly once.
C1_Conservation ==
    (OnlyIdentity /\ sinkBad = 0 /\ pcC = "closed")
        => \A k \in 1..Len(inputs) : Occurrences(OutSamples, k) = 1

\* C2: with a FlushTag, no FlushTimeout, identity steps and a downstream that
\* never fails: the first sample triggers no flush, every sample whose tag
\* value differs from the previous one's triggers a flush, and between calls
\* the flushed batches followed by the buffer are the input cut into its
\* consecutive runs of equal tag value (and header), in input order.
C2_TagRuns ==
    (FlushTag /= "" /\ FlushTimeout = 0 /\ OnlyIdentity /\ sinkBad = 0) =>
        /\ 1 \notin trig
        /\ \A k \in 2..Len(inputs) :
              inputs[k].sample.tag /= inputs[k - 1].sample.tag => k \in trig
        /\ pcC \in {"idle", "closed"} =>
              /\ BatchesOf(flushLog) \o (IF samples = <<>> THEN <<>> ELSE <<Buffered>>)
                     = RunsOf(inputs)
              /\ out \o Buffered = inputs

C2_Witness ==
    /\ FlushTag /= "" /\ FlushTimeout = 0 /\ OnlyIdentity /\ sinkBad = 0
    /\ pcC = "closed" /\ Len(inputs) = 3
    /\ inputs[1].sample.tag = "A" /\ inputs[2].sample.tag = "A"
    /\ inputs[3].sample.tag = "B"
    /\ \A i \in 1..3 : inputs[i].header = "h1"
    /\ Len(BatchesOf(flushLog)) = 2
    /\ Len(BatchesOf(flushLog)[1]) = 2 /\ Len(BatchesOf(flushLog)[2]) = 1

\* C3: every flush is executed with the header its samples arrived with: a
\* header change flushes the buffer with the old header, and no batch holds
\* samples of another header than the one it is flushed with.
C3_OldHeader ==
    \A i \in 1..Len(flushLog) : \A j \in 1..Len(flushLog[i].batch) :
        HeaderOf(flushLog[i].batch[j]) = flushLog[i].header

\* C4: a Sample() call that triggered a flush has not left triggerFlush while
\* flushHeader is pending, the worker has executed its flush by then, and if
\* that flush failed the call returns its error.
C4_SyncError ==
    /\ flushHeader /= Nil => pcC \in {"waitFlush", "closeWait"}
    /\ \A k \in trig : Past(k) =>
          \E i \in 1..Len(flushLog) :
              /\ flushLog[i].by = "sample" /\ flushLog[i].call = k
              /\ (k <= Len(rets) /\ flushLog[i].err /= NoErr)
                    => rets[k] = flushLog[i].err

C4_Witness ==
    \E k \in trig : \E i \in 1..Len(flushLog) :
        /\ k <= Len(rets) /\ flushLog[i].by = "sample" /\ flushLog[i].call = k
        /\ flushLog[i].err /= NoErr /\ rets[k] = flushLog[i].err

\* C5: the error stashed by a failed auto-flush is returned from the next
\* Sample() call: from the call after it when the caller was idle, from the
\* running or the following call when a Sample() was under way.
C5_AutoErrorNext ==
    \A i \in 1..Len(stashed) :
        Len(rets) >= stashed[i].call + 1 =>
            \/ rets[stashed[i].call + 1] = stashed[i].err
            \/ stashed[i].busy /\ rets[stashed[i].call] = stashed[i].err

\* C6: with a FlushTimeout, between two buffered samples at most one
\* auto-flush takes a batch; the worker starts no auto-flush before the first
\* sample; and once the timeout has elapsed with samples buffered while the
\* caller is silent and the worker waits, the buffer is flushed unless a new
\* call arrives first.
SilentTimedOut ==
    /\ FlushTimeout > 0 /\ pcC = "idle" /\ samples /= <<>>
    /\ pcW = "wait" /\ flushTimedOut

C6_AutoFlushOnce ==
    /\ [](autoSince <= 1)
    /\ [](pcW \in {"autoRead", "autoFlush", "autoErr", "autoStamp"}
             => lastSample /= 0 /\ Len(inputs) >= 1)
    /\ (SilentTimedOut ~> (samples = <<>> \/ pcC /= "idle"))

C6_Witness ==
    /\ FlushTimeout > 0 /\ pcC = "idle" /\ pcW = "wait" /\ now = MaxTime
    /\ samples = <<>> /\ Len(out) = 1
    /\ Len(flushLog) = 1 /\ flushLog[1].by = "auto"
    /\ lastSample = MaxTime - 1 /\ flushTimedOut

\* what the last executed step of a flush returned (its input without steps)
LastReturned(e) ==
    IF e.trace = <<>> THEN [samples |-> e.batch, header |-> e.header]
    ELSE [samples |-> e.trace[Len(e.trace)].samples,
          header |-> e.trace[Len(e.trace)].header]
\* the index of the first sample the downstream rejects, 0 if there is none
FirstBad(seq) ==
    IF \E j \in 1..Len(seq) : seq[j].id = sinkBad
    THEN CHOOSE j \in 1..Len(seq) :
            seq[j].id = sinkBad /\ \A l \in 1..(j - 1) : seq[l].id /= sinkBad
    ELSE 0
RECURSIVE CallsOf(_)
CallsOf(log) == IF log = <<>> THEN <<>> ELSE Head(log).calls \o CallsOf(Tail(log))
CloseEntries == {i \in 1..Len(flushLog) : flushLog[i].by = "close"}

\* C7: a flush whose steps succeed with a non-nil header forwards the samples
\* the last step returned, in that order and with the header it returned, up
\* to and including the first one the downstream rejects; the flush reports
\* an error exactly when the downstream rejected one. The downstream is called
\* by flushes only.
C7_ForwardReturned ==
    /\ out = CallsOf(flushLog)
    /\ \A i \in 1..Len(flushLog) :
          LET e == flushLog[i]
              ret == LastReturned(e)
              b == FirstBad(ret.samples)
              n == IF b = 0 THEN Len(ret.samples) ELSE b
          IN (e.batch /= <<>> /\ ~e.panic /\ e.stepErr = NoErr /\ ret.header /= Nil) =>
                /\ e.calls = [j \in 1..n |-> [sample |-> ret.samples[j],
                                              header |-> ret.header]]
                /\ e.err = IF b = 0 THEN NoErr ELSE <<"flushing">>

C7_Witness ==
    \E i \in 1..Len(flushLog) :
        /\ Len(flushLog[i].trace) = 2 /\ flushLog[i].header = "h1"
        /\ Len(flushLog[i].batch) = 3 /\ flushLog[i].batch[1].id = 1
        /\ LastReturned(flushLog[i]).header = "h3"
        /\ LastReturned(flushLog[i]).samples[1].id = 3
        /\ Len(flushLog[i].calls) = 2 /\ flushLog[i].calls[1].header = "h3"
        /\ flushLog[i].err = <<"flushing">>

\* C8: the downstream Close() is invoked once, at the end of Close(); by then
\* the buffer is empty and the worker has flushed it (with identity steps and
\* a downstream that accepts, it forwarded the whole buffer); nothing is
\* forwarded after the downstream Close().
C8_CloseFlushesFirst ==
    /\ [](sinkClosed = IF pcC = "closed" THEN 1 ELSE 0)
    /\ [](pcC = "closed" => samples = <<>>)
    /\ [](pcC = "closed" /\ Len(inputs) >= 1 =>
            \E i \in CloseEntries :
                (OnlyIdentity /\ sinkBad = 0) =>
                    flushLog[i].calls =
                        [j \in 1..Len(flushLog[i].batch) |->
                            [sample |-> flushLog[i].batch[j], header |-> LastHeader]])
    /\ [][sinkClosed >= 1 => out' = out]_vars

C8_Witness ==
    /\ pcC = "closed" /\ sinkClosed = 1 /\ samples = <<>>
    /\ \E i \in CloseEntries :
          Len(flushLog[i].batch) = 2 /\ Len(flushLog[i].calls) = 2

C10_EmptySkipsRest ==
    \A i \in 1..Len(flushLog) : \A j \in 1..Len(flushLog[i].trace) :
        (flushLog[i].trace[j].err = NoErr /\ flushLog[i].trace[j].samples = <<>>) =>
            /\ j = Len(flushLog[i].trace)
            /\ flushLog[i].calls = <<>>
            /\ flushLog[i].err = NoErr

\* C10 amended: the same for a step that returns the empty list together with
\* a non-nil header.
C10_EmptyNonNilSkipsRest ==
    \A i \in 1..Len(flushLog) : \A j \in 1..Len(flushLog[i].trace) :
        (/\ flushLog[i].trace[j].err = NoErr
         /\ flushLog[i].trace[j].samples = <<>>
         /\ flushLog[i].trace[j].header /= Nil) =>
            /\ j = Len(flushLog[i].trace)
            /\ flushLog[i].calls = <<>>
            /\ flushLog[i].err = NoErr
            /\ ~flushLog[i].panic

C10_Witness ==
    \E i \in 1..Len(flushLog) :
        /\ Len(Steps) = 2 /\ Len(flushLog[i].trace) = 1
        /\ flushLog[i].batch /= <<>>
        /\ flushLog[i].trace[1].samples = <<>> /\ flushLog[i].trace[1].header /= Nil
        /\ flushLog[i].calls = <<>> /\ flushLog[i].err = NoErr

\* C11: a flush in which some step returns a nil header (without an error)
\* ends with an error and forwards nothing, and the worker does not crash,
\* whichever step of the chain returned it.
C11_NilHeaderIsError ==
    \A i \in 1..Len(flushLog) : \A j \in 1..Len(flushLog[i].trace) :
        (flushLog[i].trace[j].err = NoErr /\ flushLog[i].trace[j].header = Nil) =>
            /\ ~flushLog[i].panic
            /\ flushLog[i].err /= NoErr
            /\ flushLog[i].calls = <<>>

\* ===================================================== the binary marshaller
\* Bytes are numbers 0..255, strings and buffers are sequences of bytes.
\* A timestamp is an int64 and a value is the bit pattern of its float64
\* (math.Float64bits and math.Float64frombits are bit casts); both are
\* converted to and from their 8 big-endian bytes.

\* --------------------------------------------------------------- bounds
MaxFrames == 3

\* ------------------------------------------------- constants, lines 265-269
timeBytes == 8
valBytes == 8
binary_separator == 10

\* "time" and "tags", the names of the two special columns
time_col == <<116, 105, 109, 101>>
tags_col == <<116, 97, 103, 115>>

EOF == <<"EOF">>
ErrUnexpectedEOF == <<"unexpected EOF">>

\* ------------------------------------------------------------------ inputs
\* Headers: untagged with the field "x", tagged without fields and with the
\* field "x", and two headers with unusual field names: "tags" and the empty
\* name.
EmptyHeader == [HasTags |-> FALSE, Fields |-> <<>>]
BinHeaders ==
    { [HasTags |-> FALSE, Fields |-> << <<120>> >>],
      [HasTags |-> TRUE,  Fields |-> <<>>],
      [HasTags |-> TRUE,  Fields |-> << <<120>> >>],
      [HasTags |-> FALSE, Fields |-> << tags_col >>],
      [HasTags |-> FALSE, Fields |-> << <<>> >>] }

\* 10 has the byte 0x0A in it, -1 is all 0xFF
BinTimes == {10, -1}
BinValues == {0, 10}
\* tags are a set of <<key, value>>: none, a=1, and a=1 b=22 (8 bytes, as
\* long as the value of one field)
BinTagSets ==
    { {}, { << <<97>>, <<49>> >> },
      { << <<97>>, <<49>> >>, << <<98>>, <<50, 50>> >> } }

\* the samples that match a header: one value per field; a sample may carry
\* a tag although its header is not tagged
BinSamples(h) ==
    [Time : BinTimes,
     Tags : IF h.HasTags THEN BinTagSets
            ELSE IF h.Fields = << <<120>> >> THEN { {}, { << <<97>>, <<49>> >> } }
            ELSE { {} },
     Values : [1..Len(h.Fields) -> BinValues]]

AllBinSamples == UNION {BinSamples(h) : h \in BinHeaders}

\* ----------------------------------------------------------- byte helpers
RECURSIVE Concat(_)
Concat(ss) == IF ss = <<>> THEN <<>> ELSE Head(ss) \o Concat(Tail(ss))

\* data[a:] of Go
From(s, a) == SubSeq(s, a + 1, Len(s))

\* bytes.IndexByte: the 0-based index of the first c in s, or -1
IndexByte(s, c) ==
    IF \E i \in 1..Len(s) : s[i] = c
    THEN (CHOOSE i \in 1..Len(s) : s[i] = c /\ \A j \in 1..(i - 1) : s[j] /= c) - 1
    ELSE -1

\* binary.BigEndian.PutUint64(buf, uint64(v)) for an int64 v of this model
\* (|v| < 2^31): byte i of the two's complement of v, most significant first
ByteOf(v, i) == IF i <= 4 THEN 0 ELSE (v \div (256 ^ (8 - i))) % 256
PutUint64(v) ==
    [i \in 1..8 |-> IF v >= 0 THEN ByteOf(v, i) ELSE 255 - ByteOf(-v - 1, i)]

\* int64(binary.BigEndian.Uint64(b)); a number outside the range of the
\* model's integers is shown as the largest (smallest) of them
Magnitude(b) ==
    IF b[1] = 0 /\ b[2] = 0 /\ b[3] = 0 /\ b[4] = 0 /\ b[5] < 128
    THEN ((b[5] * 256 + b[6]) * 256 + b[7]) * 256 + b[8]
    ELSE 2147483647
Uint64(b) ==
    IF b[1] >= 128 THEN -Magnitude([i \in 1..8 |-> 255 - b[i]]) - 1
    ELSE Magnitude(b)

\* Sample.TagString: k1=v1 k2=v2 ... with the keys in ascending order
RECURSIVE TagString(_)
TagString(tags) ==
    IF tags = {} THEN <<>>
    ELSE LET t == CHOOSE t \in tags : \A u \in tags : t[1][1] <= u[1][1]
             rest == tags \ {t}
         IN  t[1] \o <<61>> \o t[2] \o
             (IF rest = {} THEN <<>> ELSE <<32>> \o TagString(rest))

RECURSIVE Split(_, _)
Split(s, c) ==
    LET i == IndexByte(s, c)
    IN  IF i < 0 THEN <<s>> ELSE <<SubSeq(s, 1, i)>> \o Split(From(s, i + 1), c)

\* Sample.ParseTagString, the inverse of TagString
ParseTagString(s) ==
    IF s = <<>> THEN [tags |-> {}, err |-> NoErr]
    ELSE LET parts == Split(s, 32)
         IN  IF \E i \in 1..Len(parts) : IndexByte(parts[i], 61) < 0
             THEN [tags |-> {}, err |-> <<"bad tag">>]
             ELSE [tags |-> { << SubSeq(parts[i], 1, IndexByte(parts[i], 61)),
                                From(parts[i], IndexByte(parts[i], 61) + 1) >> :
                              i \in 1..Len(parts) },
                   err |-> NoErr]

\* ------------------------------------------------------------- the writer
\* WriteHeader, lines 278-292
WriteHeader(header) ==
    time_col \o <<binary_separator>> \o
    (IF header.HasTags THEN tags_col \o <<binary_separator>> ELSE <<>>) \o
    Concat([i \in 1..Len(header.Fields) |->
               header.Fields[i] \o <<binary_separator>>]) \o
    <<binary_separator>>

\* WriteSample, lines 323-352
WriteSample(sample, header) ==
    PutUint64(sample.Time) \o
    (IF header.HasTags THEN TagString(sample.Tags) \o <<binary_separator>>
     ELSE <<>>) \o
    Concat([i \in 1..Len(sample.Values) |-> PutUint64(sample.Values[i])])

\* ------------------------------------------------------------- the reader
\* bufio.Reader.ReadBytes(delim) on the bytes that are left: up to and with
\* the delimiter, or everything and io.EOF
ReadBytes(rest, delim) ==
    LET i == IndexByte(rest, delim)
    IN  IF i >= 0 THEN [data |-> SubSeq(rest, 1, i + 1), err |-> NoErr]
        ELSE [data |-> rest, err |-> EOF]

\* io.ReadFull(input, buf) with len(buf) = n: io.EOF when nothing could be
\* read, io.ErrUnexpectedEOF when the input ends after some bytes
ReadFull(rest, n) ==
    IF Len(rest) >= n THEN [data |-> SubSeq(rest, 1, n), err |-> NoErr]
    ELSE IF rest = <<>> THEN [data |-> <<>>, err |-> EOF]
    ELSE [data |-> rest, err |-> ErrUnexpectedEOF]

\* unexpectedEOF, lines 388-393
unexpectedEOF(err) == IF err = EOF THEN ErrUnexpectedEOF ELSE err

\* checkFirstCol: the first column of a header must be "time"
checkFirstCol(name) == IF name = time_col THEN NoErr ELSE <<"malformed header">>

\* the loop of ReadHeader, lines 303-320; n counts the bytes consumed
RECURSIVE ReadHeaderLoop(_, _, _, _)
ReadHeaderLoop(rest, first, header, n) ==
    LET r == ReadBytes(rest, binary_separator)
        used == n + Len(r.data)
        name == SubSeq(r.data, 1, Len(r.data) - 1)
    IN  IF r.err /= NoErr THEN [header |-> header, err |-> r.err, n |-> used]
        ELSE IF Len(r.data) <= 1 THEN [header |-> header, err |-> NoErr, n |-> used]
        ELSE ReadHeaderLoop(From(rest, Len(r.data)), FALSE,
                 IF first /\ name = tags_col
                 THEN [header EXCEPT !.HasTags = TRUE]
                 ELSE [header EXCEPT !.Fields = Append(@, name)],
                 used)

\* ReadHeader, lines 294-321
ReadHeader(rest) ==
    LET r == ReadBytes(rest, binary_separator)
        colErr == checkFirstCol(SubSeq(r.data, 1, Len(r.data) - 1))
    IN  IF r.err /= NoErr
        THEN [header |-> EmptyHeader, err |-> r.err, n |-> Len(r.data)]
        ELSE IF colErr /= NoErr
        THEN [header |-> EmptyHeader, err |-> colErr, n |-> Len(r.data)]
        ELSE ReadHeaderLoop(From(rest, Len(r.data)), TRUE, EmptyHeader, Len(r.data))

\* the length of a tagged sample whose tag separator is at index, line 367
resultLenShort(minlen, index) == minlen + index
resultLen(minlen, index) == minlen + index + 1

\* ReadSampleData, lines 354-386.  has tells whether the returned slice is
\* non-nil; the part of a buffer that was not filled holds zeros.
ReadSampleData(header, rest) ==
    LET valuelen == valBytes * Len(header.Fields)
        minlen == timeBytes + valuelen
        r == ReadFull(rest, minlen)
        data == r.data
        rest2 == From(rest, minlen)
        index == IndexByte(From(data, timeBytes), binary_separator)
    IN  IF r.err /= NoErr
        THEN [has |-> FALSE, data |-> <<>>, err |-> r.err, n |-> Len(r.data)]
        ELSE IF ~header.HasTags
        THEN [has |-> TRUE, data |-> data, err |-> NoErr, n |-> minlen]
        ELSE IF index >= 0
        THEN LET want == resultLen(minlen, index) - minlen
                 more == ReadFull(rest2, want)
             IN  [has |-> TRUE,
                  data |-> data \o more.data \o
                           [i \in 1..(want - Len(more.data)) |-> 0],
                  err |-> unexpectedEOF(more.err),
                  n |-> minlen + Len(more.data)]
        ELSE LET tagRest == ReadBytes(rest2, binary_separator)
                 vals == ReadFull(From(rest2, Len(tagRest.data)), valuelen)
             IN  IF tagRest.err /= NoErr
                 THEN [has |-> FALSE, data |-> <<>>,
                       err |-> unexpectedEOF(tagRest.err),
                       n |-> minlen + Len(tagRest.data)]
                 ELSE IF vals.err /= NoErr
                 THEN [has |-> FALSE, data |-> <<>>,
                       err |-> unexpectedEOF(vals.err),
                       n |-> minlen + Len(tagRest.data) + Len(vals.data)]
                 ELSE [has |-> TRUE, data |-> data \o tagRest.data \o vals.data,
                       err |-> NoErr,
                       n |-> minlen + Len(tagRest.data) + valuelen]

\* the loop of ParseSample, lines 427-432
RECURSIVE ParseValues(_, _)
ParseValues(data, n) ==
    IF n = 0 THEN <<>>
    ELSE <<Uint64(SubSeq(data, 1, valBytes))>> \o
         ParseValues(From(data, valBytes), n - 1)

\* ParseSample, lines 395-434: the sample, or no sample and an error
ParseSample(header, data) ==
    LET nf == Len(header.Fields)
        size == timeBytes + nf * valBytes
        tim == Uint64(SubSeq(data, 1, timeBytes))
        d1 == From(data, timeBytes)
        index == IndexByte(d1, binary_separator)
        tg == ParseTagString(SubSeq(d1, 1, index))
    IN  IF Len(data) < size
        THEN [sample |-> <<>>, err |-> <<"Data slice not long enough">>]
        ELSE IF ~header.HasTags
        THEN [sample |-> << [Time |-> tim, Tags |-> {},
                             Values |-> ParseValues(d1, nf)] >>,
              err |-> NoErr]
        ELSE IF index < 0
        THEN [sample |-> <<>>, err |-> <<"no tag separator">>]
        ELSE IF Len(d1) /= index + 1 + nf * valBytes
        THEN [sample |-> <<>>, err |-> <<"Data slice wrong len">>]
        ELSE IF tg.err /= NoErr
        THEN [sample |-> <<>>, err |-> tg.err]
        ELSE [sample |-> << [Time |-> tim, Tags |-> tg.tags,
                             Values |-> ParseValues(From(d1, index + 1), nf)] >>,
              err |-> NoErr]

\* ---------------------------------------------------------------- actions
\* the writer appends the header of a new group
BinWriteHeader(h) ==
    /\ binPc = "write" /\ Len(written) < MaxFrames
    /\ wire' = wire \o WriteHeader(h)
    /\ written' = Append(written, [kind |-> "header", header |-> h,
                                   sample |-> <<>>, to |-> Len(wire')])
    /\ UNCHANGED <<binPc, cut, rpos, rHeader, reads, batchVars, pureVars, sinkVars, srcVars>>

\* the writer appends a sample of the current group
BinWriteSample(s) ==
    /\ binPc = "write" /\ written /= <<>> /\ Len(written) < MaxFrames
    /\ LET h == written[Len(written)].header
       IN  /\ s \in BinSamples(h)
           /\ wire' = wire \o WriteSample(s, h)
           /\ written' = Append(written, [kind |-> "sample", header |-> h,
                                          sample |-> <<s>>, to |-> Len(wire')])
    /\ UNCHANGED <<binPc, cut, rpos, rHeader, reads, batchVars, pureVars, sinkVars, srcVars>>

\* A reader is given the first n bytes of the stream as its input.  The input
\* ends in or after the last frame: an input that ends earlier is the input
\* of a shorter stream.
LastFrameStart == IF Len(written) <= 1 THEN 0 ELSE written[Len(written) - 1].to

BinStartRead(n) ==
    /\ binPc = "write" /\ written /= <<>>
    /\ n \in LastFrameStart..Len(wire)
    /\ binPc' = "read" /\ cut' = n
    /\ UNCHANGED <<wire, written, rpos, rHeader, reads, batchVars, pureVars, sinkVars, srcVars>>

\* the input that is left, and the kind of frame written at this place
Rest == SubSeq(wire, rpos + 1, cut)
Expected ==
    IF Len(reads) < Len(written) THEN written[Len(reads) + 1].kind ELSE "end"

\* the reader calls ReadHeader where a group begins (or at the end)
BinReadHeader ==
    /\ binPc = "read" /\ Expected \in {"header", "end"}
    /\ LET r == ReadHeader(Rest)
       IN  /\ reads' = Append(reads,
                  [kind |-> "header", at |-> rpos, to |-> rpos + r.n,
                   header |-> r.header, has |-> FALSE, data |-> <<>>,
                   sample |-> <<>>, err |-> r.err, perr |-> NoErr])
           /\ rpos' = rpos + r.n
           /\ rHeader' = IF r.err = NoErr THEN <<r.header>> ELSE rHeader
           /\ binPc' = IF r.err = NoErr /\ Expected = "header"
                       THEN "read" ELSE "done"
    /\ UNCHANGED <<wire, written, cut, batchVars, pureVars, sinkVars, srcVars>>

\* the reader, holding a header, calls ReadSampleData and ParseSample
BinReadSample ==
    /\ binPc = "read" /\ rHeader /= <<>>
    /\ LET h == rHeader[1]
           r == ReadSampleData(h, Rest)
           p == IF r.err = NoErr THEN ParseSample(h, r.data)
                ELSE [sample |-> <<>>, err |-> NoErr]
       IN  /\ reads' = Append(reads,
                  [kind |-> "sample", at |-> rpos, to |-> rpos + r.n,
                   header |-> EmptyHeader, has |-> r.has, data |-> r.data,
                   sample |-> p.sample, err |-> r.err, perr |-> p.err])
           /\ rpos' = rpos + r.n
           /\ binPc' = IF r.err = NoErr /\ p.err = NoErr /\ Expected = "sample"
                       THEN "read" ELSE "done"
    /\ UNCHANGED <<wire, written, cut, rHeader, batchVars, pureVars, sinkVars, srcVars>>

NextBin ==
    \/ \E h \in BinHeaders : BinWriteHeader(h)
    \/ \E s \in AllBinSamples : BinWriteSample(s)
    \/ \E n \in 0..Len(wire) : BinStartRead(n)
    \/ BinReadHeader
    \/ BinReadSample

\* the batch processor stays as constructed
InitBin ==
    /\ Init
    /\ Steps = <<>> /\ FlushTag = "" /\ FlushTimeout = 0 /\ sinkBad = 0

SpecBin == InitBin /\ [][NextBin]_vars

\* ------------------------------------------------- claims on the marshaller
\* the reader was given the whole stream
FullInput == binPc /= "write" /\ cut = Len(wire)

\* the k-th frame was read with the function that matches what was written
Aligned(k) == k <= Len(written) /\ reads[k].kind = written[k].kind

\* the k-th read gave back what the k-th write was given, and consumed the
\* bytes of that frame and no others
RoundTrip(k) ==
    /\ reads[k].err = NoErr /\ reads[k].perr = NoErr
    /\ reads[k].to = written[k].to
    /\ written[k].kind = "header" => reads[k].header = written[k].header
    /\ written[k].kind = "sample" => reads[k].sample = written[k].sample

\* a header the wire format can express: no field name is empty, and the
\* first field of an untagged header is not called "tags"
WellFormed(h) ==
    /\ \A i \in 1..Len(h.Fields) : h.Fields[i] /= <<>>
    /\ h.HasTags \/ h.Fields = <<>> \/ h.Fields[1] /= tags_col

\* a frame of a well-formed header; a sample has tags only if its header has
Regular(f) ==
    /\ WellFormed(f.header)
    /\ (f.kind = "sample" /\ ~f.header.HasTags) => f.sample[1].Tags = {}

\* C12 as stated: for every header (any newline-free field names) and every
\* list of matching samples, reading back the frames that were written yields
\* an equal header and equal samples and consumes exactly the bytes written.
C12_RoundTrip ==
    FullInput => \A k \in 1..Len(reads) : Aligned(k) => RoundTrip(k)

\* C12 amended: the round trip is exact for headers whose field names are not
\* empty and, if the header is untagged, do not begin with "tags", and for
\* samples that carry tags only under a tagged header.
C12_RoundTripWellFormed ==
    FullInput =>
        \A k \in 1..Len(reads) :
            (Aligned(k) /\ \A j \in 1..k : Regular(written[j])) => RoundTrip(k)

\* a tagged header with one field and two samples, one with a tag string
\* shorter and one with a tag string as long as the values, all read back
C12_Witness ==
    /\ FullInput /\ Len(written) = 3 /\ Len(reads) = 3
    /\ written[1].header = [HasTags |-> TRUE, Fields |-> << <<120>> >>]
    /\ written[2].kind = "sample" /\ written[3].kind = "sample"
    /\ Cardinality(written[2].sample[1].Tags) = 2
    /\ Cardinality(written[3].sample[1].Tags) = 1
    /\ written[3].sample[1].Time = -1 /\ written[3].sample[1].Values = <<10>>
    /\ \A k \in 1..3 : Aligned(k) /\ RoundTrip(k)
    /\ rpos = Len(wire)

\* C13: in a stream of several groups the frame read where the header of the
\* next group was written is recognised as that header, also when the reader
\* holds the header of the group before.
C13_HeaderRecognised ==
    FullInput =>
        \A k \in 1..Len(reads) :
            (/\ k <= Len(written) /\ written[k].kind = "header"
             /\ \A j \in 1..k : Regular(written[j]))
            => /\ reads[k].kind = "header" /\ reads[k].err = NoErr
               /\ reads[k].header = written[k].header

\* C14: a read from an input that ends after at least one byte of the frame
\* but before its end returns no header, no data and io.ErrUnexpectedEOF, and
\* io.EOF is returned only when the input ends exactly where the frame begins.
C14_TruncatedIsUnexpectedEOF ==
    \A k \in 1..Len(reads) :
        (Aligned(k) /\ \A j \in 1..k : Regular(written[j])) =>
            /\ (reads[k].at < cut /\ cut < written[k].to) =>
                   /\ reads[k].err = ErrUnexpectedEOF
                   /\ reads[k].header = EmptyHeader
                   /\ ~reads[k].has
            /\ reads[k].err = EOF => reads[k].at = cut

\* ============================================================ the TCP sink
\* --------------------------------------------------------------- bounds
\* the calls of Header(), Sample() and Close() made by the caller
MaxCalls == 3
\* The capacity of the channel between Sample() and the writer goroutine
\* (line 16).  The code has 50; the model fills a smaller channel.
tcp_sample_buffer == 2

\* the headers passed to Header(); 0 is the zero value of LastHeader
SinkHeaders == {1, 2}

Stopped == <<"already stopped">>
DialErr == <<"dial">>
CheckErr == <<"check">>

\* ---------------------------------------------------- tcpWriteConn, 20-91
\* writeConn, lines 32-39.  conn: conn.conn is not nil; samplesNil:
\* conn.samples is nil; chanClosed: the channel was closed; tcp: the state of
\* the TCP connection and who closed it; sent/taken: the samples sent into
\* the channel and how many of them were received; wire: what was written
\* to the TCP connection; pc, sample: the writer goroutine.
writeConn ==
    [conn |-> TRUE, samplesNil |-> FALSE, chanClosed |-> FALSE,
     tcp |-> "open", closedBy |-> "", sent |-> <<>>, taken |-> 0,
     wire |-> <<>>, pc |-> "header", sample |-> 0]

\* the samples waiting in the channel
Queue(c) == SubSeq(c.sent, c.taken + 1, Len(c.sent))

\* tcpWriteConn.err, lines 55-69
connErr(c, by) ==
    IF c.conn THEN [c EXCEPT !.conn = FALSE, !.tcp = "closed", !.closedBy = by]
    ELSE c

\* tcpWriteConn.Close, lines 41-49
connClose(c) ==
    LET e == connErr(c, "caller")
    IN  IF ~e.samplesNil
        THEN [e EXCEPT !.samplesNil = TRUE, !.chanClosed = TRUE]
        ELSE e

\* tcpWriteConn.Running, lines 51-53
Running(cs, k) == k /= 0 /\ cs[k].conn

\* TCPSink.closeConnection, lines 113-116
closeConnectionSkip(cs, k) == [conns |-> cs, conn |-> k]
closeConnection(cs, k) ==
    [conns |-> IF k = 0 THEN cs ELSE [cs EXCEPT ![k] = connClose(@)],
     conn |-> 0]

\* TCPSink.assertConnection, lines 153-168; ok: resolving and dialing succeed
assertConnectionAnyway(cs, k, ok) ==
    IF k /= 0
    THEN [conns |-> cs, conn |-> k, err |-> NoErr, dialed |-> FALSE]
    ELSE [conns |-> Append(cs, writeConn), conn |-> Len(cs) + 1,
          err |-> IF ok THEN NoErr ELSE DialErr, dialed |-> TRUE]
assertConnection(cs, k, ok) ==
    IF k /= 0
    THEN [conns |-> cs, conn |-> k, err |-> NoErr, dialed |-> FALSE]
    ELSE IF ~ok
    THEN [conns |-> cs, conn |-> 0, err |-> DialErr, dialed |-> TRUE]
    ELSE [conns |-> Append(cs, writeConn), conn |-> Len(cs) + 1,
          err |-> NoErr, dialed |-> TRUE]

\* stopped.IfElseEnabled, lines 125 and 136: which branch runs
ifEnabledNever(s) == FALSE
ifEnabled(s) == s

\* a send to the channel of line 148 goes through when the buffer has room
canSendAlways(c) == TRUE
canSend(c) == Len(Queue(c)) < tcp_sample_buffer

\* ----------------------------------------------------------- the caller
CallsMade == Len(sinkRets) + (IF pcS = "send" THEN 1 ELSE 0)
SamplesMade ==
    Cardinality({i \in 1..Len(sinkRets) : sinkRets[i].op = "Sample"}) +
    (IF pcS = "send" THEN 1 ELSE 0)

\* what a call was given, what it found (before: sink.conn, live: whether that
\* connection was running), what it did and what it left behind
Ret(op, arg, err, dialed, before, live) ==
    [op |-> op, arg |-> arg, err |-> err, dialed |-> dialed,
     before |-> before, live |-> live, conn |-> sinkConn',
     started |-> Len(conns'), header |-> sinkLastHeader']

\* TCPSink.Header, lines 124-133
SinkHeader(header, ok) ==
    /\ pcS = "idle" /\ CallsMade < MaxCalls
    /\ ok => Len(conns) < MaxCalls
    /\ UNCHANGED <<stopped, pcS, sending, batchVars, pureVars, binVars, srcVars>>
    /\ IF ifEnabled(stopped)
       THEN /\ UNCHANGED <<sinkConn, sinkLastHeader, conns>>
            /\ sinkRets' = Append(sinkRets, Ret("Header", header, Stopped, FALSE, sinkConn, Running(conns, sinkConn)))
       ELSE LET c == closeConnection(conns, sinkConn)
                a == assertConnection(c.conns, c.conn, ok)
            IN  /\ sinkLastHeader' = header
                /\ conns' = a.conns /\ sinkConn' = a.conn
                /\ sinkRets' = Append(sinkRets, Ret("Header", header, a.err, a.dialed, sinkConn, Running(conns, sinkConn)))

\* TCPSink.Sample, lines 135-147, up to the send to the channel; good: the
\* sample passes sample.Check(header)
SinkSampleBegin(good, ok) ==
    /\ pcS = "idle" /\ CallsMade < MaxCalls
    /\ ok => Len(conns) < MaxCalls
    /\ UNCHANGED <<stopped, sinkLastHeader, batchVars, pureVars, binVars, srcVars>>
    /\ LET id == SamplesMade + 1
           c == IF Running(conns, sinkConn)
                THEN [conns |-> conns, conn |-> sinkConn]
                ELSE closeConnection(conns, sinkConn)
           a == assertConnection(c.conns, c.conn, ok)
       IN  IF ifEnabled(stopped)
           THEN /\ UNCHANGED <<sinkConn, conns, pcS, sending>>
                /\ sinkRets' = Append(sinkRets, Ret("Sample", id, Stopped, FALSE, sinkConn, Running(conns, sinkConn)))
           ELSE IF ~good
           THEN /\ UNCHANGED <<sinkConn, conns, pcS, sending>>
                /\ sinkRets' = Append(sinkRets, Ret("Sample", id, CheckErr, FALSE, sinkConn, Running(conns, sinkConn)))
           ELSE /\ conns' = a.conns /\ sinkConn' = a.conn
                /\ IF a.err /= NoErr
                   THEN /\ sinkRets' = Append(sinkRets, Ret("Sample", id, a.err, a.dialed, sinkConn, Running(conns, sinkConn)))
                        /\ UNCHANGED <<pcS, sending>>
                   ELSE /\ pcS' = "send"
                        /\ sending' = [id |-> id, dialed |-> a.dialed, before |-> sinkConn,
                                        live |-> Running(conns, sinkConn)]
                        /\ UNCHANGED sinkRets

\* TCPSink.Sample, line 148: the send, which waits while the channel is full
SinkSampleSend ==
    /\ pcS = "send"
    /\ UNCHANGED <<stopped, sinkConn, sinkLastHeader, batchVars, pureVars, binVars, srcVars>>
    /\ canSend(conns[sinkConn])
    /\ conns' = [conns EXCEPT ![sinkConn].sent = Append(@, sending.id)]
    /\ pcS' = "idle" /\ sending' = 0
    /\ sinkRets' = Append(sinkRets, Ret("Sample", sending.id, NoErr, sending.dialed, sending.before, sending.live))

\* TCPSink.Close, lines 118-122; Enable runs its function once
SinkClose ==
    /\ pcS = "idle" /\ CallsMade < MaxCalls
    /\ UNCHANGED <<sinkLastHeader, pcS, sending, batchVars, pureVars, binVars, srcVars>>
    /\ IF stopped
       THEN UNCHANGED <<stopped, sinkConn, conns>>
       ELSE LET c == closeConnection(conns, sinkConn)
            IN  stopped' = TRUE /\ conns' = c.conns /\ sinkConn' = c.conn
    /\ sinkRets' = Append(sinkRets, Ret("Close", 0, NoErr, FALSE, sinkConn, Running(conns, sinkConn)))

\* -------------------------------------- the writer goroutine of connection k
\* Run, lines 76-80: the header is written first; ok: the peer takes it
RunHeader(k, ok) ==
    /\ conns[k].pc = "header"
    /\ conns' = [conns EXCEPT ![k] =
          IF @.conn /\ ok
          THEN [@ EXCEPT !.wire = Append(@, [kind |-> "header", header |-> sinkLastHeader, sample |-> 0]),
                         !.pc = "range"]
          ELSE [connErr(@, "writer") EXCEPT !.pc = "exit"]]
    /\ UNCHANGED <<stopped, sinkConn, sinkLastHeader, pcS, sending, sinkRets, batchVars, pureVars, binVars, srcVars>>

\* Run, line 81: the range expression conn.samples is evaluated once; a
\* range over a nil channel never ends
RunRange(k) ==
    /\ conns[k].pc = "range"
    /\ conns' = [conns EXCEPT ![k].pc = IF conns[k].samplesNil THEN "stuck" ELSE "recv"]
    /\ UNCHANGED <<stopped, sinkConn, sinkLastHeader, pcS, sending, sinkRets, batchVars, pureVars, binVars, srcVars>>

\* Run, line 81: receive the next sample, or leave the loop when the channel
\* is closed and empty
RunRecv(k) ==
    /\ conns[k].pc = "recv"
    /\ Queue(conns[k]) /= <<>> \/ conns[k].chanClosed
    /\ conns' = [conns EXCEPT ![k] =
          IF Queue(@) /= <<>>
          THEN [@ EXCEPT !.sample = Head(Queue(conns[k])), !.taken = @ + 1, !.pc = "check"]
          ELSE [@ EXCEPT !.pc = "exit"]]
    /\ UNCHANGED <<stopped, sinkConn, sinkLastHeader, pcS, sending, sinkRets, batchVars, pureVars, binVars, srcVars>>

\* Run, lines 82-85: connection := conn.conn
RunCheck(k) ==
    /\ conns[k].pc = "check"
    /\ conns' = [conns EXCEPT ![k].pc = IF conns[k].conn THEN "write" ELSE "exit"]
    /\ UNCHANGED <<stopped, sinkConn, sinkLastHeader, pcS, sending, sinkRets, batchVars, pureVars, binVars, srcVars>>

\* Run, lines 86-89: WriteSample with sink.LastHeader on the connection read
\* before; the write fails on a connection that was closed meanwhile
RunWrite(k, ok) ==
    /\ conns[k].pc = "write"
    /\ conns' = [conns EXCEPT ![k] =
          IF @.tcp = "open" /\ ok
          THEN [@ EXCEPT !.wire = Append(@, [kind |-> "sample", header |-> sinkLastHeader, sample |-> conns[k].sample]),
                         !.pc = "recv"]
          ELSE [connErr(@, "writer") EXCEPT !.pc = "exit"]]
    /\ UNCHANGED <<stopped, sinkConn, sinkLastHeader, pcS, sending, sinkRets, batchVars, pureVars, binVars, srcVars>>

\* Run, lines 72-75: the deferred function
RunExit(k) ==
    /\ conns[k].pc = "exit"
    /\ conns' = [conns EXCEPT ![k].conn = FALSE, ![k].pc = "done"]
    /\ UNCHANGED <<stopped, sinkConn, sinkLastHeader, pcS, sending, sinkRets, batchVars, pureVars, binVars, srcVars>>

NextSink ==
    \/ \E h \in SinkHeaders, ok \in BOOLEAN : SinkHeader(h, ok)
    \/ \E good \in BOOLEAN, ok \in BOOLEAN : SinkSampleBegin(good, ok)
    \/ SinkSampleSend
    \/ SinkClose
    \/ \E k \in 1..Len(conns), ok \in BOOLEAN : RunHeader(k, ok)
    \/ \E k \in 1..Len(conns) : RunRange(k)
    \/ \E k \in 1..Len(conns) : RunRecv(k)
    \/ \E k \in 1..Len(conns) : RunCheck(k)
    \/ \E k \in 1..Len(conns), ok \in BOOLEAN : RunWrite(k, ok)
    \/ \E k \in 1..Len(conns) : RunExit(k)

\* the sink after Start(); the other components stay as constructed
InitSink == InitBin

SpecSink == InitSink /\ [][NextSink]_vars

\* the steps of the writer goroutine of connection k
Run(k) ==
    /\ k <= Len(conns)
    /\ \/ \E ok \in BOOLEAN : RunHeader(k, ok)
       \/ RunRange(k)
       \/ RunRecv(k)
       \/ RunCheck(k)
       \/ \E ok \in BOOLEAN : RunWrite(k, ok)
       \/ RunExit(k)

\* Every writer goroutine is scheduled, and a send that can go through does.
SpecSinkFair ==
    /\ InitSink /\ [][NextSink]_vars
    /\ WF_vars(SinkSampleSend)
    /\ \A k \in 1..MaxCalls : WF_vars(Run(k))

\* -------------------------------------------------------- claims on the sink
\* the sample of the id-th Sample() call was sent into a channel
EverSent(id) ==
    \E k \in 1..Len(conns) : \E j \in 1..Len(conns[k].sent) : conns[k].sent[j] = id

\* the sample was written to connection k
WrittenOn(k, id) ==
    \E j \in 1..Len(conns[k].wire) :
        conns[k].wire[j].kind = "sample" /\ conns[k].wire[j].sample = id

\* the connections (and writer goroutines) that existed before the i-th call
StartedBefore(i) == IF i = 1 THEN 0 ELSE sinkRets[i - 1].started

\* a Sample() call that got as far as asserting the connection
Attempted(r) == r.op = "Sample" /\ r.err /= Stopped /\ r.err /= CheckErr

\* C15: a Sample() that finds no running connection dials; when the dial
\* fails the error is returned, the sample is in no queue, no writer goroutine
\* was started, the sink has no connection, and the next Sample() dials again.
C15_DialFailure ==
    \A i \in 1..Len(sinkRets) :
        LET r == sinkRets[i]
        IN  /\ (Attempted(r) /\ ~r.live) => r.dialed
            /\ (r.op = "Sample" /\ r.err = DialErr) =>
                  /\ ~EverSent(r.arg)
                  /\ r.conn = 0
                  /\ r.started = StartedBefore(i)
                  /\ (i < Len(sinkRets) /\ Attempted(sinkRets[i + 1]))
                         => sinkRets[i + 1].dialed

\* a failed dial in Sample(), and the next Sample() dials and is queued
C15_Witness ==
    \E i \in 1..(Len(sinkRets) - 1) :
        /\ sinkRets[i].op = "Sample" /\ sinkRets[i].err = DialErr
        /\ sinkRets[i + 1].op = "Sample" /\ sinkRets[i + 1].err = NoErr
        /\ sinkRets[i + 1].dialed /\ EverSent(sinkRets[i + 1].arg)

\* C16: Header() closes the connection it finds and dials; on every
\* connection the header is written first and only once, and every sample on
\* it is marshalled with that header.
C16_HeaderFirst ==
    /\ \A k \in 1..Len(conns) : \A j \in 1..Len(conns[k].wire) :
          /\ (conns[k].wire[j].kind = "header") <=> (j = 1)
          /\ conns[k].wire[j].header = conns[k].wire[1].header
    /\ \A i \in 1..Len(sinkRets) :
          (sinkRets[i].op = "Header" /\ sinkRets[i].err /= Stopped) =>
              /\ sinkRets[i].dialed
              /\ sinkRets[i].before /= 0 =>
                    /\ conns[sinkRets[i].before].tcp = "closed"
                    /\ sinkRets[i].conn /= sinkRets[i].before

\* two connections, each with its own header and a sample written after it
C16_Witness ==
    /\ Len(conns) = 2
    /\ Len(conns[1].wire) = 2 /\ Len(conns[2].wire) = 2
    /\ conns[1].wire[1].header /= conns[2].wire[1].header
    /\ \E i \in 1..Len(sinkRets) :
          sinkRets[i].op = "Header" /\ sinkRets[i].before = 1 /\ sinkRets[i].conn = 2

\* Sample() is waiting at a full channel
Blocked == pcS = "send" /\ Len(Queue(conns[sinkConn])) >= tcp_sample_buffer

\* C17: no channel ever holds more than tcp_sample_buffer samples; a sample
\* for which Sample() returned nil was sent into the channel; and while the
\* channel is full Sample() neither returns nor puts its sample anywhere.
C17_Backpressure ==
    /\ [](\A k \in 1..Len(conns) : Len(Queue(conns[k])) <= tcp_sample_buffer)
    /\ [](\A i \in 1..Len(sinkRets) :
            (sinkRets[i].op = "Sample" /\ sinkRets[i].err = NoErr) =>
                \E j \in 1..Len(conns[sinkRets[i].conn].sent) :
                    conns[sinkRets[i].conn].sent[j] = sinkRets[i].arg)
    /\ [][Blocked => /\ pcS' = "send" /\ sinkRets' = sinkRets
                     /\ conns'[sinkConn].sent = conns[sinkConn].sent]_vars

\* the channel is full, Sample() waits, and the writer is about to receive
C17_Witness ==
    /\ Blocked
    /\ Len(Queue(conns[sinkConn])) = tcp_sample_buffer
    /\ conns[sinkConn].pc = "recv"

\* C18: a sample for which Sample() returned nil has been written to its
\* connection when that connection is closed by Close() or Header().
C18_QueuedWrittenBeforeClose ==
    \A i \in 1..Len(sinkRets) :
        (/\ sinkRets[i].op = "Sample" /\ sinkRets[i].err = NoErr
         /\ conns[sinkRets[i].conn].closedBy = "caller")
        => WrittenOn(sinkRets[i].conn, sinkRets[i].arg)

\* C19: after Close() every Sample() and Header() returns the 'already
\* stopped' error, dials nothing, queues nothing and leaves LastHeader and
\* the connection alone, and another Close() changes nothing either.
C19_AfterClose ==
    /\ [](\A i \in 1..Len(sinkRets) : \A j \in (i + 1)..Len(sinkRets) :
            sinkRets[i].op = "Close" =>
                /\ sinkRets[j].op /= "Close" => sinkRets[j].err = Stopped
                /\ ~sinkRets[j].dialed
                /\ sinkRets[j].op = "Sample" => ~EverSent(sinkRets[j].arg)
                /\ sinkRets[j].header = sinkRets[i].header
                /\ sinkRets[j].conn = 0
                /\ sinkRets[j].started = sinkRets[i].started)
    /\ [][stopped =>
            /\ stopped' /\ sinkConn' = sinkConn
            /\ sinkLastHeader' = sinkLastHeader
            /\ Len(conns') = Len(conns)
            /\ \A k \in 1..Len(conns) :
                  /\ conns'[k].sent = conns[k].sent
                  /\ conns'[k].chanClosed = conns[k].chanClosed]_vars

\* a sink that had a connection is closed; then Sample(), Header() or Close()
C19_Witness ==
    /\ Len(sinkRets) = 3 /\ Len(conns) = 1
    /\ sinkRets[1].op = "Sample" /\ sinkRets[1].err = NoErr
    /\ sinkRets[2].op = "Close"
    /\ sinkRets[3].op = "Header" /\ sinkRets[3].err = Stopped

\* ========================================================== the TCP source
\* --------------------------------------------------------------- bounds
\* the dial attempts of the loop, and the samples a peer sends on a connection
MaxDials == 3
MaxStream == 2

\* how the stream of a peer ends: it closes the connection (io.EOF), or the
\* read fails
StreamEnds == {EOF, <<"read">>}
ClosedErr == <<"use of closed network connection">>

\* a connection returned by dial(), lines 221-227: the samples the peer
\* sends (numbered 1..n), the error that follows them, the number of samples
\* read so far, and whether the source has closed the connection
peerConn(n, end) == [stream |-> n, ends |-> end, pos |-> 0, closed |-> FALSE]

\* readSamples hands every sample it has read to the sink, in that order
forwardFirst(o, k, j) == <<[conn |-> k, sample |-> j]>> \o o
forward(o, k, j) == Append(o, [conn |-> k, sample |-> j])

\* ------------------------------------------------------ the loop goroutine
\* golib.LoopTask: the loop function is called again until the task is
\* stopped; then the StopHook runs
SrcLoopTop ==
    /\ pcL = "top"
    /\ pcL' = IF srcStop THEN "hook" ELSE "dial"
    /\ UNCHANGED <<srcStop, srcConn, lConn, peers, srcOut, srcDials,
                   batchVars, pureVars, binVars, sinkVars>>

\* Start, lines 186-188: source.dial(); ok: resolving and dialing succeed
SrcDial(ok, n, end) ==
    /\ pcL = "dial" /\ srcDials < MaxDials
    /\ srcDials' = srcDials + 1
    /\ IF ok
       THEN /\ peers' = Append(peers, peerConn(n, end))
            /\ lConn' = Len(peers) + 1
            /\ pcL' = "register"
       ELSE /\ pcL' = "wait"
            /\ UNCHANGED <<peers, lConn>>
    /\ UNCHANGED <<srcStop, srcConn, srcOut, batchVars, pureVars, binVars, sinkVars>>

\* Start, lines 189-193: the connection is registered unless the task was
\* stopped; reading starts in both cases
SrcRegister ==
    /\ pcL = "register"
    /\ srcConn' = IF srcStop THEN srcConn ELSE lConn
    /\ pcL' = "read"
    /\ UNCHANGED <<srcStop, lConn, peers, srcOut, srcDials,
                   batchVars, pureVars, binVars, sinkVars>>

\* the error that ends the reading, if the next read fails
ReadError(c) ==
    IF c.closed THEN ClosedErr
    ELSE IF c.pos = c.stream THEN c.ends
    ELSE NoErr

\* tcpReadSamples, line 233: readSamples reads the next sample and hands it
\* to the sink
SrcRead ==
    /\ pcL = "read"
    /\ ReadError(peers[lConn]) = NoErr
    /\ peers' = [peers EXCEPT ![lConn].pos = @ + 1]
    /\ srcOut' = forward(srcOut, lConn, peers[lConn].pos + 1)
    /\ UNCHANGED <<srcStop, srcConn, pcL, lConn, srcDials,
                   batchVars, pureVars, binVars, sinkVars>>

\* tcpReadSamples, lines 233-241: readSamples returns; the connection is
\* closed after an error that is neither io.EOF nor caused by Stop()
SrcReadEnd ==
    /\ pcL = "read"
    /\ ReadError(peers[lConn]) /= NoErr
    /\ peers' = [peers EXCEPT ![lConn].closed =
                    IF ReadError(peers[lConn]) /= EOF /\ ~srcStop THEN TRUE ELSE @]
    /\ pcL' = "wait"
    /\ UNCHANGED <<srcStop, srcConn, lConn, srcOut, srcDials,
                   batchVars, pureVars, binVars, sinkVars>>

\* Start, lines 196-199: RetryInterval has passed, or the task was stopped
SrcWait ==
    /\ pcL = "wait"
    /\ pcL' = "top"
    /\ UNCHANGED <<srcStop, srcConn, lConn, peers, srcOut, srcDials,
                   batchVars, pureVars, binVars, sinkVars>>

\* loopStopped, lines 213-215: the StopHook closes the downstream sink
SrcHook ==
    /\ pcL = "hook"
    /\ srcOut' = Append(srcOut, [conn |-> 0, sample |-> 0])
    /\ pcL' = "done"
    /\ UNCHANGED <<srcStop, srcConn, lConn, peers, srcDials,
                   batchVars, pureVars, binVars, sinkVars>>

\* Stop, lines 205-211: Enable runs its function once
SrcStop ==
    /\ ~srcStop
    /\ srcStop' = TRUE
    /\ peers' = IF srcConn /= 0 THEN [peers EXCEPT ![srcConn].closed = TRUE]
                ELSE peers
    /\ UNCHANGED <<srcConn, pcL, lConn, srcOut, srcDials,
                   batchVars, pureVars, binVars, sinkVars>>

NextSource ==
    \/ SrcLoopTop
    \/ \E ok \in BOOLEAN, n \in 0..MaxStream, end \in StreamEnds : SrcDial(ok, n, end)
    \/ SrcRegister
    \/ SrcRead
    \/ SrcReadEnd
    \/ SrcWait
    \/ SrcHook
    \/ SrcStop

\* the source after Start(); the other components stay as constructed
InitSource == InitBin

SpecSource == InitSource /\ [][NextSource]_vars

\* The steps of the loop goroutine.  The goroutine is scheduled, the timer of
\* the retry wait fires, and a peer ends its stream, so the loop is treated
\* fairly.
SrcLoop ==
    \/ SrcLoopTop
    \/ \E ok \in BOOLEAN, n \in 0..MaxStream, end \in StreamEnds : SrcDial(ok, n, end)
    \/ SrcRegister
    \/ SrcRead
    \/ SrcReadEnd
    \/ SrcWait
    \/ SrcHook

SpecSourceFair == InitSource /\ [][NextSource]_vars /\ WF_vars(SrcLoop)

\* ------------------------------------------------------ claims on the source
\* the samples of connection k that reached the sink, in the order they did
RECURSIVE FromConn(_, _)
FromConn(o, k) ==
    IF o = <<>> THEN <<>>
    ELSE IF Head(o).conn = k THEN <<Head(o).sample>> \o FromConn(Tail(o), k)
    ELSE FromConn(Tail(o), k)

SrcOwn ==
    \/ SrcLoopTop
    \/ \E ok \in BOOLEAN, n \in 0..MaxStream, end \in StreamEnds : SrcDial(ok, n, end)
    \/ SrcRegister
    \/ pcL = "read" /\ peers[lConn].closed /\ SrcReadEnd
    \/ SrcWait
    \/ SrcHook

SpecSourceStop == InitSource /\ [][NextSource]_vars /\ WF_vars(SrcOwn)

\* the number of times the downstream sink was closed
RECURSIVE Closes(_)
Closes(o) ==
    IF o = <<>> THEN 0
    ELSE (IF Head(o).conn = 0 THEN 1 ELSE 0) + Closes(Tail(o))

\* C21: once Stop() has run, no connection is dialed any more, the loop
\* goroutine leaves its loop whatever the peer does (it ends at "done", after
\* the StopHook), and the downstream sink is closed once, by the StopHook.
C21_StopEnds ==
    /\ [][srcStop => srcDials' = srcDials]_vars
    /\ srcStop ~> (pcL = "done" \/ (pcL = "dial" /\ srcDials = MaxDials))
    /\ [](Closes(srcOut) = IF pcL = "done" THEN 1 ELSE 0)

\* ================================================ the endpoint descriptions
\* ParseEndpointDescription and its helpers, src/pipeline_flags.go
\* --------------------------------------------------------------- bounds
\* the length of an endpoint string, in symbols
MaxUrl == 5

\* An endpoint string is a sequence of symbols; a symbol is a run of
\* characters that no parser splits: the names of a format and of two
\* transports, a word "h" that is no such name (a host, a file, a custom
\* transport), a port number, the separators, and the NUL character.
Symbols == {"csv", "tcp", "std", "h", "80", "+", "://", ":", "-", "NUL"}
Endpoints == UNION { [1..n -> Symbols] : n \in 0..MaxUrl }

\* lines 58-62
allFormatsMap == {<<"text">>, <<"csv">>, <<"bin">>}
\* line 64
stdTransportTarget == <<"-">>
ConsoleBoxEndpoint == <<"box">>

\* the zero EndpointDescription, with the error returned along with it
EndpointDescription ==
    [Format |-> <<>>, Type |-> <<>>, IsCustomType |-> FALSE, Target |-> <<>>,
     err |-> NoErr]

\* strings.Contains(s, ":")
HasColon(s) == \E i \in 1..Len(s) : s[i] \in {":", "://"}

\* strings.SplitN(endpoint, "://", 2)
SplitUrl(s) ==
    LET i == IndexByte(s, "://")
    IN  IF i < 0 THEN <<s>> ELSE <<SubSeq(s, 1, i), From(s, i + 1)>>

\* net.SplitHostPort for addresses without brackets: the port follows the
\* last colon, the host before it holds no colon
SplitHostPort(hostport) ==
    LET colons == {i \in 1..Len(hostport) : hostport[i] \in {":", "://"}}
        failed(e) == [host |-> <<>>, port |-> <<>>, err |-> <<e>>]
    IN  IF colons = {} THEN failed("missing port in address")
        ELSE LET i == CHOOSE c \in colons : \A d \in colons : d <= c
                 host == SubSeq(hostport, 1, i - 1)
                 port == (IF hostport[i] = "://" THEN <<"//">> ELSE <<>>)
                             \o From(hostport, i)
             IN  IF HasColon(host) THEN failed("too many colons in address")
                 ELSE [host |-> host, port |-> port, err |-> NoErr]

\* net.LookupPort("tcp", port): the empty port is port 0, a number is a port
\* when it is below 65536 (four digits are, six are not), no other symbol
\* is a service name
LookupPort(port) ==
    IF Len(port) <= 2 /\ \A i \in 1..Len(port) : port[i] = "80" THEN NoErr
    ELSE <<"unknown port">>

\* IsValidFilename, lines 504-512: os.Stat fails with "invalid argument" for
\* a path that holds a NUL character
IsValidFilename(path) == \A i \in 1..Len(path) : path[i] /= "NUL"

\* the test of line 490 that turns a target into an error instead of a file
notFileAnyColon(target) == ~IsValidFilename(target)
notFile(target) == HasColon(target) \/ ~IsValidFilename(target)

\* GuessEndpointType, lines 474-501
GuessEndpointType(target) ==
    IF target = <<>>
    THEN [typ |-> <<>>, err |-> <<"Empty endpoint/file is not valid">>]
    ELSE IF target = stdTransportTarget THEN [typ |-> <<"std">>, err |-> NoErr]
    ELSE LET hp == SplitHostPort(target)
             err2 == LookupPort(hp.port)
         IN  IF hp.err = NoErr /\ err2 = NoErr
             THEN [typ |-> IF hp.host = <<>> THEN <<"listen">> ELSE <<"tcp">>,
                   err |-> NoErr]
             ELSE IF notFile(target)
             THEN [typ |-> <<>>,
                   err |-> <<"Not a filename and not a valid TCP endpoint">>]
             ELSE [typ |-> <<"file">>, err |-> NoErr]

\* GuessEndpointDescription, lines 462-466
GuessEndpointDescription(target) ==
    LET g == GuessEndpointType(target)
    IN  [EndpointDescription EXCEPT !.Target = target, !.Type = g.typ, !.err = g.err]

\* the test of line 424: a transport was named before
typeNeverDefined(res) == FALSE
typeDefined(res) == res.Type /= <<>>

\* ParseUrlEndpointDescription, the loop of lines 416-446 over the parts; an
\* error ends the loop and the function
RECURSIVE parseParts(_, _, _)
parseParts(parts, res, target) ==
    IF parts = <<>> THEN res
    ELSE LET part == Head(parts)
         IN  IF part \in allFormatsMap
             THEN IF res.Format /= <<>>
                  THEN [res EXCEPT !.err = <<"Multiple formats defined">>]
                  ELSE parseParts(Tail(parts), [res EXCEPT !.Format = part], target)
             ELSE IF typeDefined(res)
             THEN [res EXCEPT !.err = <<"Multiple transport types defined">>]
             ELSE IF part \in {<<"tcp">>, <<"listen">>, <<"file">>}
             THEN parseParts(Tail(parts), [res EXCEPT !.Type = part], target)
             ELSE IF part = <<"std">>
             THEN IF target /= stdTransportTarget
                  THEN [res EXCEPT !.err = <<"Transport can only be defined with target -">>]
                  ELSE parseParts(Tail(parts), [res EXCEPT !.Type = part], target)
             ELSE parseParts(Tail(parts),
                             [res EXCEPT !.IsCustomType = TRUE, !.Type = part], target)

\* ParseUrlEndpointDescription, lines 408-458
ParseUrlEndpointDescription(s) ==
    LET urlParts == SplitUrl(s)
    IN  IF Len(urlParts) /= 2 \/ urlParts[1] = <<>> \/ urlParts[2] = <<>>
        THEN [EndpointDescription EXCEPT !.err = <<"Invalid URL endpoint">>]
        ELSE LET target == urlParts[2]
                 r == parseParts(Split(urlParts[1], "+"),
                                 [EndpointDescription EXCEPT !.Target = target], target)
                 g == GuessEndpointType(target)
                 guessed == IF r.Type = <<>>
                            THEN [r EXCEPT !.Type = g.typ, !.err = g.err]
                            ELSE r
             IN  IF r.err /= NoErr THEN r
                 ELSE IF guessed.IsCustomType /\ guessed.Format /= <<>>
                 THEN [guessed EXCEPT !.err = <<"Cannot define the data format for transport">>]
                 ELSE guessed

\* ParseEndpointDescription, lines 385-399
ParseEndpointDescription(s, isOutput) ==
    IF IndexByte(s, "://") >= 0 THEN ParseUrlEndpointDescription(s)
    ELSE LET guessed == GuessEndpointDescription(s)
         IN  IF guessed.err = NoErr /\ isOutput
                   /\ guessed.Target = stdTransportTarget /\ guessed.Format = <<>>
             THEN [guessed EXCEPT !.Type = ConsoleBoxEndpoint, !.IsCustomType = TRUE]
             ELSE guessed

\* ----------------------------------------------------------------- actions
EpParseUrl ==
    /\ parsed = <<>>
    /\ parsed' = <<[fn |-> "ParseUrl", res |-> ParseUrlEndpointDescription(endpoint)]>>
    /\ UNCHANGED <<endpoint, batchVars, binVars, sinkVars, srcVars,
                   mapVars, headVars, sortVars, lateVars>>

EpGuess ==
    /\ parsed = <<>>
    /\ parsed' = <<[fn |-> "Guess", res |-> GuessEndpointDescription(endpoint)]>>
    /\ UNCHANGED <<endpoint, batchVars, binVars, sinkVars, srcVars,
                   mapVars, headVars, sortVars, lateVars>>

EpParse(isOutput) ==
    /\ parsed = <<>>
    /\ parsed' = <<[fn |-> IF isOutput THEN "ParseOutput" ELSE "ParseInput",
                    res |-> ParseEndpointDescription(endpoint, isOutput)]>>
    /\ UNCHANGED <<endpoint, batchVars, binVars, sinkVars, srcVars,
                   mapVars, headVars, sortVars, lateVars>>

NextEp ==
    \/ EpParseUrl
    \/ EpGuess
    \/ \E isOutput \in BOOLEAN : EpParse(isOutput)

\* the components that are not functions of an input, as constructed
OthersIdle ==
    /\ Steps = <<>> /\ FlushTag = "" /\ FlushTimeout = 0 /\ sinkBad = 0
    /\ BatchIdle /\ BinIdle /\ SinkIdle /\ SourceIdle

\* any endpoint string, not parsed yet
InitEp ==
    /\ OthersIdle /\ MapIdle /\ HeadIdle /\ SortIdle /\ LateIdle
    /\ endpoint \in Endpoints /\ parsed = <<>>

SpecEp == InitEp /\ [][NextEp]_vars

\* ------------------------------------------------- claims on the endpoints
\* the result of the function fn for the endpoint of this state
Did(fn) == parsed /= <<>> /\ parsed[1].fn = fn
Res == parsed[1].res

\* both failed, or both succeeded with the same description
SameOutcome(a, b) ==
    IF a.err /= NoErr \/ b.err /= NoErr THEN a.err /= NoErr /\ b.err /= NoErr
    ELSE /\ a.Format = b.Format /\ a.Type = b.Type
         /\ a.IsCustomType = b.IsCustomType /\ a.Target = b.Target

\* the parts before "://" of an endpoint of the form A+B://target
TwoParts(s) ==
    IF Len(SplitUrl(s)) = 2 THEN Split(SplitUrl(s)[1], "+") ELSE <<>>
Swapped(s) ==
    TwoParts(s)[2] \o <<"+">> \o TwoParts(s)[1] \o <<"://">> \o SplitUrl(s)[2]

\* C22: A+B://target and B+A://target both fail, or both succeed with the
\* same Format, Type, IsCustomType and Target.
C22_OrderIndependent ==
    (Did("ParseUrl") /\ Len(TwoParts(endpoint)) = 2)
        => SameOutcome(Res, ParseUrlEndpointDescription(Swapped(endpoint)))

\* the parts before "://" of a URL endpoint, the target after it
UrlParts(s) == IF Len(SplitUrl(s)) = 2 THEN Split(SplitUrl(s)[1], "+") ELSE <<>>
UrlTarget(s) == IF Len(SplitUrl(s)) = 2 THEN SplitUrl(s)[2] ELSE <<>>
Formats(s) == {i \in 1..Len(UrlParts(s)) : UrlParts(s)[i] \in allFormatsMap}
Transports(s) ==
    {i \in 1..Len(UrlParts(s)) : UrlParts(s)[i] \notin allFormatsMap \cup {<<>>}}

\* C23: a URL that names two formats, or two transports, or std with a
\* target other than "-", or whose part before or after "://" is empty,
\* is answered with an error.
C23_ConflictsFail ==
    (/\ Did("ParseUrl")
     /\ \/ Cardinality(Formats(endpoint)) >= 2
        \/ Cardinality(Transports(endpoint)) >= 2
        \/ /\ \E i \in Transports(endpoint) : UrlParts(endpoint)[i] = <<"std">>
           /\ UrlTarget(endpoint) /= <<"-">>
        \/ /\ Len(SplitUrl(endpoint)) = 2
           /\ SplitUrl(endpoint)[1] = <<>> \/ SplitUrl(endpoint)[2] = <<>>)
        => Res.err /= NoErr

\* tcp+h://h names two transports and is refused
C23_Witness ==
    /\ Did("ParseUrl")
    /\ endpoint = <<"tcp", "+", "h", "://", "h">>
    /\ Res.err = <<"Multiple transport types defined">>

\* the colons of a target, and the ports net.LookupPort accepts
Colons(s) == {i \in 1..Len(s) : s[i] = ":"}
ValidPorts == {<<>>, <<"80">>, <<"80", "80">>}
IsHostPort(s) ==
    /\ Cardinality(Colons(s)) = 1
    /\ \E i \in Colons(s) : i > 1 /\ From(s, i) \in ValidPorts
IsListenPort(s) ==
    Cardinality(Colons(s)) = 1 /\ s[1] = ":" /\ Tail(s) \in ValidPorts
Bare(s) == s /= <<>> /\ \A i \in 1..Len(s) : s[i] /= "://"

MaxFields == 2
MaxRegexes == 2
MaxMapCalls == 2
MaxBatch == 3

\* Names are strings of character codes: "a", "b", "ab", and "c", which is
\* in no header.  A regex is a quoted literal (IncludeStr, ExcludeStr): it
\* matches the names that contain it.
FieldNames == {<<97>>, <<98>>, <<97, 98>>}
Regexes == {<<97>>, <<98>>}
Replacements == {<<>>, <<98>>}
MapHeaders == UNION { [1..n -> FieldNames] : n \in 0..MaxFields }
RegexLists == UNION { [1..n -> Regexes] : n \in 0..MaxRegexes }
MetricLists == UNION { [1..n -> FieldNames \cup {<<99>>}] : n \in 0..MaxFields }
RenameLists ==
    UNION { [1..n -> [regex : Regexes, repl : Replacements]] : n \in 0..MaxRegexes }

\* the thresholds of the variance filter, as fractions: 0, 1/2, 1
Thresholds == { [num |-> 0, den |-> 1], [num |-> 1, den |-> 2], [num |-> 1, den |-> 1] }
\* the batches of the variance filter: at least two samples (the standard
\* deviation of one sample is not defined), each with a value v for the first
\* field and the mirrored value -v for the second
VarHeader == << <<97>>, <<98>> >>
VarValues == {-3, -1, 1, 3}
Batches ==
    UNION { { [k \in 1..n |-> <<vs[k], 0 - vs[k]>>] : vs \in [1..n -> VarValues] } :
            n \in 2..MaxBatch }

\* a mapper with its parameters
NoMapper ==
    [kind |-> "none", include |-> <<>>, exclude |-> <<>>, Metrics |-> <<>>,
     renames |-> <<>>, min |-> [num |-> 0, den |-> 1]]
Mappers ==
    { [NoMapper EXCEPT !.kind = "filter", !.include = i, !.exclude = e] :
          i \in RegexLists, e \in RegexLists }
    \cup { [NoMapper EXCEPT !.kind = "mapper", !.Metrics = m] : m \in MetricLists }
    \cup { [NoMapper EXCEPT !.kind = "renamer", !.renames = r] : r \in RenameLists }
    \cup { [NoMapper EXCEPT !.kind = "variance", !.min = t] : t \in Thresholds }

\* --------------------------------------------------------------- strings
\* a < b for strings
RECURSIVE StrLess(_, _)
StrLess(a, b) ==
    IF b = <<>> THEN FALSE
    ELSE IF a = <<>> THEN TRUE
    ELSE IF Head(a) /= Head(b) THEN Head(a) < Head(b)
    ELSE StrLess(Tail(a), Tail(b))

\* regexp.MatchString for a quoted literal
MatchString(regex, name) ==
    \E i \in 0..(Len(name) - Len(regex)) : SubSeq(name, i + 1, i + Len(regex)) = regex

\* regexp.ReplaceAllString for a quoted literal: every occurrence, from the
\* left, without overlap
RECURSIVE ReplaceAllString(_, _, _)
ReplaceAllString(regex, src, repl) ==
    IF Len(src) < Len(regex) THEN src
    ELSE IF SubSeq(src, 1, Len(regex)) = regex
    THEN repl \o ReplaceAllString(regex, From(src, Len(regex)), repl)
    ELSE <<Head(src)>> \o ReplaceAllString(regex, Tail(src), repl)

\* ------------------------------------------------------------ MetricFilter
\* the loops of lines 185-189 and 192-196: true when a regex matches
RECURSIVE anyMatch(_, _)
anyMatch(regexes, name) ==
    IF regexes = <<>> THEN FALSE
    ELSE IF MatchString(Head(regexes), name) THEN TRUE
    ELSE anyMatch(Tail(regexes), name)

\* MetricFilter.filter, lines 183-199
filterExcludeOnly(m, name) == ~anyMatch(m.exclude, name)
filter(m, name) ==
    LET excluded == anyMatch(m.exclude, name)
    IN  IF ~excluded /\ Len(m.include) > 0 THEN anyMatch(m.include, name)
        ELSE ~excluded

\* AbstractMetricFilter.constructIndices, lines 87-101, from field i on
RECURSIVE filterIndices(_, _, _)
filterIndices(m, hdr, i) ==
    IF i > Len(hdr) THEN [outIndices |-> <<>>, outFields |-> <<>>]
    ELSE LET rest == filterIndices(m, hdr, i + 1)
         IN  IF filter(m, hdr[i])
             THEN [outIndices |-> <<i>> \o rest.outIndices,
                   outFields |-> <<hdr[i]>> \o rest.outFields]
             ELSE rest

\* ------------------------------------------------------------ MetricMapper
\* the inner loop of lines 243-250: the first field with that name, 0 if none
indexOf(hdr, metric) ==
    IF \E i \in 1..Len(hdr) : hdr[i] = metric
    THEN CHOOSE i \in 1..Len(hdr) :
             hdr[i] = metric /\ \A j \in 1..(i - 1) : hdr[j] /= metric
    ELSE 0

\* MetricMapper.constructIndices, lines 238-256
mapperIndicesHeaderOrder(metrics, hdr) ==
    LET named(name) == \E j \in 1..Len(metrics) : metrics[j] = name
        keep == {i \in 1..Len(hdr) : named(hdr[i])}
    IN  [outIndices |-> SelectSeq([i \in 1..Len(hdr) |-> i], LAMBDA i : i \in keep),
         outFields |-> SelectSeq(hdr, named)]

RECURSIVE mapperIndices(_, _)
mapperIndices(metrics, hdr) ==
    IF metrics = <<>> THEN [outIndices |-> <<>>, outFields |-> <<>>]
    ELSE LET rest == mapperIndices(Tail(metrics), hdr)
             i == indexOf(hdr, Head(metrics))
         IN  IF i > 0
             THEN [outIndices |-> <<i>> \o rest.outIndices,
                   outFields |-> <<Head(metrics)>> \o rest.outFields]
             ELSE rest

\* ----------------------------------------------------------- MetricRenamer
\* the inner loop of lines 386-389: every replacement, in the order of the list
RECURSIVE rename(_, _)
rename(renames, field) ==
    IF renames = <<>> THEN field
    ELSE rename(Tail(renames),
                ReplaceAllString(Head(renames).regex, field, Head(renames).repl))

\* lines 384-392: the renamed fields with their indices
indexedFields(renames, hdr) ==
    [i \in 1..Len(hdr) |-> [index |-> i, field |-> rename(renames, hdr[i])]]

\* sort.Sort with indexedFields.Less, lines 393 and 422-424: the orders it may
\* leave the fields in (the sort is not stable)
sortNothing(fs) == {[i \in 1..Len(fs) |-> i]}
sortOrders(fs) ==
    {p \in Permutations(1..Len(fs)) :
        \A i \in 1..(Len(fs) - 1) : ~StrLess(fs[p[i + 1]].field, fs[p[i]].field)}

\* MetricRenamer.constructIndices, lines 383-401, the fields sorted as p
renamerIndices(renames, hdr, p) ==
    LET fs == indexedFields(renames, hdr)
    IN  [outIndices |-> [i \in 1..Len(fs) |-> fs[p[i]].index],
         outFields |-> [i \in 1..Len(fs) |-> fs[p[i]].field]]

\* --------------------------------------------------------- variance filter
RECURSIVE Sum(_)
Sum(vs) == IF vs = <<>> THEN 0 ELSE Head(vs) + Sum(Tail(vs))

\* onlinestats.Running after Push of the values vs (at least two): Mean() is
\* S/n and Stddev() the square root of (n*Q - S*S) / (n*(n-1)), with S the
\* sum, Q the sum of the squares.  The test of lines 308-312 with the
\* threshold t, in exact arithmetic:
\*   mean = 0:  Stddev >= t
\*   mean > 0:  Stddev / mean >= t
\*   mean < 0:  Stddev / mean >= t, where Stddev / mean <= 0
weightedStddev(vs, t) ==
    LET n == Len(vs)
        S == Sum(vs)
        Q == Sum([k \in 1..n |-> vs[k] * vs[k]])
        m2 == n * Q - S * S
    IN  IF S = 0 THEN m2 * t.den * t.den >= t.num * t.num * n * (n - 1)
        ELSE IF S > 0 THEN m2 * t.den * t.den * n >= t.num * t.num * S * S * (n - 1)
        ELSE IF t.num = 0 THEN m2 = 0
        ELSE FALSE

\* NewMetricVarianceFilter, ConstructIndices, lines 297-318, from field i on
RECURSIVE varianceIndices(_, _, _, _)
varianceIndices(t, hdr, smp, i) ==
    IF i > Len(hdr) THEN [outIndices |-> <<>>, outFields |-> <<>>]
    ELSE LET rest == varianceIndices(t, hdr, smp, i + 1)
         IN  IF weightedStddev([k \in 1..Len(smp) |-> smp[k][i]], t)
             THEN [outIndices |-> <<i>> \o rest.outIndices,
                   outFields |-> <<hdr[i]>> \o rest.outFields]
             ELSE rest

\* ------------------------------------------------------ MetricMapperHelper
\* HeaderChecker.HeaderChanged: the header differs from the one of the last
\* call, or there was no call
HeaderChanged(h, header) == h.LastHeader = <<>> \/ h.LastHeader[1] /= header

NewHelper == [LastHeader |-> <<>>, outIndices |-> <<>>, outHeader |-> <<>>]

\* incomingHeader, lines 23-39; ci is what constructIndices returns
incomingHeaderKeepsOutHeader(h, header, ci) ==
    IF ~HeaderChanged(h, header) THEN h
    ELSE [LastHeader |-> <<header>>, outIndices |-> ci.outIndices,
          outHeader |-> h.outHeader]

incomingHeader(h, header, ci) ==
    IF ~HeaderChanged(h, header) THEN h
    ELSE [LastHeader |-> <<header>>, outIndices |-> ci.outIndices,
          outHeader |-> ci.outFields]

\* convertValues, lines 41-50
convertValues(h, values) ==
    [i \in 1..Len(h.outIndices) |-> values[h.outIndices[i]]]

\* ----------------------------------------------------------------- actions
\* the header of the next Sample(): any header for the first call, then the
\* same header again, or one with the fields reversed, or without the first
NextHeaders ==
    IF mapCalls = <<>> THEN MapHeaders
    ELSE LET last == mapCalls[Len(mapCalls)].header
         IN  {last, Reverse(last), IF last = <<>> THEN <<>> ELSE Tail(last)}

\* the values of the sample of call k: all different
ValuesOf(k, header) == [i \in 1..Len(header) |-> 10 * k + i]

\* AbstractMetricMapper.Sample, lines 66-72, with ConstructIndices of the
\* mapper; p is the order sort.Sort leaves the renamed fields in
MapSample(header, p) ==
    /\ mapper.kind \in {"filter", "mapper", "renamer"}
    /\ Len(mapCalls) < MaxMapCalls
    /\ LET ci == CASE mapper.kind = "filter" -> filterIndices(mapper, header, 1)
                   [] mapper.kind = "mapper" -> mapperIndices(mapper.Metrics, header)
                   [] OTHER -> renamerIndices(mapper.renames, header, p)
           h2 == incomingHeader(helper, header, ci)
           values == ValuesOf(Len(mapCalls) + 1, header)
       IN  /\ helper' = h2
           /\ mapCalls' = Append(mapCalls,
                   [header |-> header, values |-> values,
                    outHeader |-> h2.outHeader,
                    outValues |-> convertValues(h2, values)])
    /\ UNCHANGED <<mapper, batchVars, binVars, sinkVars, srcVars,
                   epVars, headVars, sortVars, lateVars>>

\* AbstractBatchMetricMapper.ProcessBatch, lines 272-284, of the variance
\* filter: a new helper for every batch
MapBatch(smp) ==
    /\ mapper.kind = "variance"
    /\ mapCalls = <<>>
    /\ LET ci == varianceIndices(mapper.min, VarHeader, smp, 1)
           h2 == incomingHeader(NewHelper, VarHeader, ci)
       IN  mapCalls' = Append(mapCalls,
               [header |-> VarHeader, values |-> smp,
                outHeader |-> h2.outHeader,
                outValues |-> [k \in 1..Len(smp) |-> convertValues(h2, smp[k])]])
    /\ UNCHANGED <<mapper, helper, batchVars, binVars, sinkVars, srcVars,
                   epVars, headVars, sortVars, lateVars>>

NextMap ==
    \/ \E header \in NextHeaders :
          \E p \in sortOrders(indexedFields(mapper.renames, header)) :
              MapSample(header, p)
    \/ \E smp \in (IF mapper.kind = "variance" THEN Batches ELSE {}) : MapBatch(smp)

\* any mapper, before its first sample
InitMap ==
    /\ OthersIdle /\ EpIdle /\ HeadIdle /\ SortIdle /\ LateIdle
    /\ mapper \in Mappers /\ helper = NewHelper /\ mapCalls = <<>>

SpecMap == InitMap /\ [][NextMap]_vars

\* ---------------------------------------------------- claims on the mappers
\* the elements of seq at the indices in S, in their order, from index i on
RECURSIVE Pick(_, _, _)
Pick(seq, S, i) ==
    IF i > Len(seq) THEN <<>>
    ELSE (IF i \in S THEN <<seq[i]>> ELSE <<>>) \o Pick(seq, S, i + 1)

\* a field is kept when an include regex matches it, or there is none, and no
\* exclude regex matches it
Keeps(name) ==
    /\ \/ mapper.include = <<>>
       \/ \E i \in 1..Len(mapper.include) : MatchString(mapper.include[i], name)
    /\ \A i \in 1..Len(mapper.exclude) : ~MatchString(mapper.exclude[i], name)

\* C25: the output header of MetricFilter lists the kept fields in their input
\* order, and every output value is the input value of the kept field.
C25_FilterKeeps ==
    mapper.kind = "filter" =>
        \A c \in 1..Len(mapCalls) :
            LET call == mapCalls[c]
                kept == {i \in 1..Len(call.header) : Keeps(call.header[i])}
            IN  /\ call.outHeader = Pick(call.header, kept, 1)
                /\ call.outValues = Pick(call.values, kept, 1)

\* include "a", exclude "b": of the fields "ab" and "a" only "a" is kept
C25_Witness ==
    /\ mapper.kind = "filter"
    /\ mapper.include = << <<97>> >> /\ mapper.exclude = << <<98>> >>
    /\ Len(mapCalls) = 1
    /\ mapCalls[1].header = << <<97, 98>>, <<97>> >>
    /\ mapCalls[1].outHeader = << <<97>> >>
    /\ mapCalls[1].outValues = <<12>>

\* C26: the output header of MetricMapper lists the configured names that
\* occur in the incoming header, in the order of the configured list, and
\* every output value is a value the sample had for that name.
C26_MapperOrder ==
    mapper.kind = "mapper" =>
        \A c \in 1..Len(mapCalls) :
            LET call == mapCalls[c]
                present == {j \in 1..Len(mapper.Metrics) :
                               \E k \in 1..Len(call.header) :
                                   call.header[k] = mapper.Metrics[j]}
            IN  /\ call.outHeader = Pick(mapper.Metrics, present, 1)
                /\ Len(call.outValues) = Len(call.outHeader)
                /\ \A i \in 1..Len(call.outHeader) :
                       \E k \in 1..Len(call.header) :
                           /\ call.header[k] = call.outHeader[i]
                           /\ call.outValues[i] = call.values[k]

\* the list "b", "a": the header "a", "b" comes out reordered; of the header
\* "b" that follows, "b" comes out and the missing "a" is dropped
C26_Witness ==
    /\ mapper.kind = "mapper"
    /\ mapper.Metrics = << <<98>>, <<97>> >>
    /\ Len(mapCalls) = 2
    /\ mapCalls[1].header = << <<97>>, <<98>> >>
    /\ mapCalls[1].outHeader = << <<98>>, <<97>> >>
    /\ mapCalls[1].outValues = <<12, 11>>
    /\ mapCalls[2].header = << <<98>> >>
    /\ mapCalls[2].outHeader = << <<98>> >>
    /\ mapCalls[2].outValues = <<21>>

\* the name after the first k replacements
RECURSIVE RenamedBy(_, _)
RenamedBy(name, k) ==
    IF k = 0 THEN name
    ELSE ReplaceAllString(mapper.renames[k].regex, RenamedBy(name, k - 1),
                          mapper.renames[k].repl)

\* C27: the output header of MetricRenamer has as many fields as the input,
\* is in ascending order, and is the input header with every name rewritten
\* by all replacements in their order and then permuted; the values are
\* permuted in the same way.
C27_RenamerSorted ==
    mapper.kind = "renamer" =>
        \A c \in 1..Len(mapCalls) :
            LET call == mapCalls[c]
                n == Len(call.header)
            IN  /\ Len(call.outHeader) = n /\ Len(call.outValues) = n
                /\ \A i \in 1..(n - 1) :
                       ~StrLess(call.outHeader[i + 1], call.outHeader[i])
                /\ \E q \in Permutations(1..n) :
                       \A i \in 1..n :
                           /\ call.outHeader[i] =
                                  RenamedBy(call.header[q[i]], Len(mapper.renames))
                           /\ call.outValues[i] = call.values[q[i]]

\* "b" is replaced by "", then "a" by "b": the header "a", "b" becomes "", "b",
\* and the values change places
C27_Witness ==
    /\ mapper.kind = "renamer"
    /\ mapper.renames = << [regex |-> <<98>>, repl |-> <<>>],
                           [regex |-> <<97>>, repl |-> <<98>>] >>
    /\ Len(mapCalls) = 1
    /\ mapCalls[1].header = << <<97>>, <<98>> >>
    /\ mapCalls[1].outHeader = << <<>>, <<98>> >>
    /\ mapCalls[1].outValues = <<12, 11>>

\* the standard deviation of vs, divided by the absolute value of the mean
\* unless the mean is 0, is at least t (in exact arithmetic, as above)
AbsWeightedAtLeast(vs, t) ==
    LET n == Len(vs)
        S == Sum(vs)
        Q == Sum([k \in 1..n |-> vs[k] * vs[k]])
        m2 == n * Q - S * S
    IN  IF S = 0 THEN m2 * t.den * t.den >= t.num * t.num * n * (n - 1)
        ELSE m2 * t.den * t.den * n >= t.num * t.num * S * S * (n - 1)

\* C28: the variance filter keeps a field exactly when its standard
\* deviation over the batch, divided by the absolute value of its mean (not
\* divided when the mean is 0), is at least the threshold; a field and the
\* field with the mirrored values are both kept or both dropped.
C28_VarianceKeeps ==
    (mapper.kind = "variance" /\ mapCalls /= <<>>) =>
        LET call == mapCalls[1]
            column(i) == [k \in 1..Len(call.values) |-> call.values[k][i]]
            kept == {i \in 1..Len(call.header) :
                        AbsWeightedAtLeast(column(i), mapper.min)}
        IN  /\ call.outHeader = Pick(call.header, kept, 1)
            /\ \A k \in 1..Len(call.values) :
                   call.outValues[k] = Pick(call.values[k], kept, 1)
            /\ (1 \in kept) = (2 \in kept)

\* ================================================================= PickHead
\* src/analysis-pipeline/analysis_basic.go, lines 209-225
\* --------------------------------------------------------------- bounds
\* the parameter Num, and the Sample() calls on one PickHead
MaxNum == 2
MaxHeadCalls == 4

SinkErr == <<"sink">>

\* the test of line 219
pickNextInclusive(h) == h.Num >= h.processed
pickNext(h) == h.Num > h.processed

\* PickHead.Sample, lines 215-224.  valid: the sample passes head.Check;
\* sinkOk: the outgoing sink accepts the sample.  Samples are numbered by the
\* call that brings them.
HeadSample(valid, sinkOk) ==
    /\ Len(headRets) < MaxHeadCalls
    /\ LET id == Len(headRets) + 1
           ret(err) == [id |-> id, valid |-> valid, err |-> err]
       IN  IF ~valid
           THEN /\ headRets' = Append(headRets, ret(CheckErr))
                /\ UNCHANGED <<head, headOut>>
           ELSE IF pickNext(head)
           THEN /\ head' = [head EXCEPT !.processed = @ + 1]
                /\ headOut' = Append(headOut, id)
                /\ headRets' = Append(headRets, ret(IF sinkOk THEN NoErr ELSE SinkErr))
           ELSE /\ headRets' = Append(headRets, ret(NoErr))
                /\ UNCHANGED <<head, headOut>>
    /\ UNCHANGED <<batchVars, binVars, sinkVars, srcVars, epVars, mapVars, sortVars, lateVars>>

NextHead == \E valid \in BOOLEAN, sinkOk \in BOOLEAN : HeadSample(valid, sinkOk)

\* a PickHead with any parameter (strconv.Atoi accepts a negative number)
InitHead ==
    /\ OthersIdle /\ EpIdle /\ MapIdle /\ SortIdle /\ LateIdle
    /\ head \in [Num : (0 - 1)..MaxNum, processed : {0}]
    /\ headOut = <<>> /\ headRets = <<>>

SpecHead == InitHead /\ [][NextHead]_vars

\* ----------------------------------------------------- claims on PickHead
\* the valid calls, in their order
ValidCalls == SelectSeq(headRets, LAMBDA r : r.valid)

\* C29: of the k valid samples so far exactly the first min(Num, k) were
\* forwarded, in their order, and each later one was dropped with a nil result.
C29_FirstN ==
    LET k == Len(ValidCalls)
        n == IF head.Num < 0 THEN 0 ELSE IF head.Num < k THEN head.Num ELSE k
    IN  /\ headOut = [i \in 1..n |-> ValidCalls[i].id]
        /\ \A i \in (n + 1)..k : ValidCalls[i].err = NoErr

\* Num = 2: of the valid samples 1, 3 and 4 the first two are forwarded
C29_Witness ==
    /\ head.Num = 2 /\ Len(headRets) = 4
    /\ headRets[1].valid /\ ~headRets[2].valid /\ headRets[3].valid /\ headRets[4].valid
    /\ headOut = <<1, 3>>
    /\ headRets[4].err = NoErr

\* ============================================================= SampleSorter
\* src/steps/output_tcp_text.go, lines 150-186
\* --------------------------------------------------------------- bounds
\* the samples of a batch
MaxSortBatch == 3

\* the tags the sorter is configured with, and the samples: a time, a tag x
\* that is missing, "a" or "b", a tag y that is missing or "a"
TagLists == {<<>>, <<"x">>, <<"x", "y">>, <<"y", "x">>}
SortSamples ==
    { [Time |-> t, tags |-> f] :
        t \in {1, 2},
        f \in [{"x", "y"} -> {<<97>>}] \cup [{"x"} -> {<<97>>, <<98>>}]
                  \cup [{"y"} -> {<<97>>}] \cup [{} -> {<<97>>}]
                  \cup {[k \in {"x", "y"} |-> IF k = "x" THEN <<98>> ELSE <<97>>]} }
SortBatches == UNION { [1..n -> SortSamples] : n \in 0..MaxSortBatch }

\* Sample.Tag: the value of the tag, "" when the sample has none
SampleTag(s, key) == IF key \in DOMAIN s.tags THEN s.tags[key] ELSE <<>>

\* SampleSlice.Less, lines 164-176, for the samples a and b
RECURSIVE LessFirstTag(_, _, _)
LessFirstTag(a, b, tags) ==
    IF tags = <<>> THEN a.Time < b.Time
    ELSE StrLess(SampleTag(a, Head(tags)), SampleTag(b, Head(tags)))

RECURSIVE Less(_, _, _)
Less(a, b, tags) ==
    IF tags = <<>> THEN a.Time < b.Time
    ELSE IF SampleTag(a, Head(tags)) = SampleTag(b, Head(tags))
    THEN Less(a, b, Tail(tags))
    ELSE StrLess(SampleTag(a, Head(tags)), SampleTag(b, Head(tags)))

\* sort.Sort(SampleSlice{samples, sorter}), line 184: the orders it may leave
\* the samples in (the sort is not stable)
sampleOrders(smp, tags) ==
    {p \in Permutations(1..Len(smp)) :
        \A i \in 1..(Len(smp) - 1) : ~Less(smp[p[i + 1]], smp[p[i]], tags)}

\* SampleSorter.ProcessBatch, lines 182-186
SortBatch(p) ==
    /\ sorted = <<>>
    /\ sorted' = <<[header |-> batch.header,
                    samples |-> [i \in 1..Len(batch.samples) |-> batch.samples[p[i]]],
                    err |-> NoErr]>>
    /\ UNCHANGED <<sorter, batch, batchVars, binVars, sinkVars, srcVars,
                   epVars, mapVars, headVars, lateVars>>

NextSort == \E p \in sampleOrders(batch.samples, sorter.Tags) : SortBatch(p)

\* any sorter and any batch
InitSort ==
    /\ OthersIdle /\ EpIdle /\ MapIdle /\ HeadIdle /\ LateIdle
    /\ sorter \in [Tags : TagLists]
    /\ batch \in [header : Headers, samples : SortBatches]
    /\ sorted = <<>>

SpecSort == InitSort /\ [][NextSort]_vars

\* ------------------------------------------------- claims on SampleSorter
\* a comes before b: at the first configured tag in which they differ a has
\* the smaller value, or they differ in none and a is not later than b
InOrder(a, b) ==
    LET T == sorter.Tags
        differ == {m \in 1..Len(T) : SampleTag(a, T[m]) /= SampleTag(b, T[m])}
    IN  IF differ = {} THEN a.Time <= b.Time
        ELSE LET m == CHOOSE d \in differ : \A e \in differ : d <= e
             IN  StrLess(SampleTag(a, T[m]), SampleTag(b, T[m]))

\* C30: ProcessBatch returns the header it was given, no error, and the
\* samples of the batch in another order, in which every sample comes before
\* the samples that follow it.
C30_Sorted ==
    sorted /= <<>> =>
        LET res == sorted[1]
            n == Len(batch.samples)
        IN  /\ res.header = batch.header /\ res.err = NoErr
            /\ Len(res.samples) = n
            /\ \E q \in Permutations(1..n) :
                   \A i \in 1..n : res.samples[i] = batch.samples[q[i]]
            /\ \A i \in 1..n : \A j \in (i + 1)..n :
                   InOrder(res.samples[i], res.samples[j])

\* sorted by x: the two samples with x = "a" come first, the earlier one
\* before the later one, then the sample with x = "b"
C30_Witness ==
    /\ sorted /= <<>>
    /\ sorter.Tags = <<"x">>
    /\ batch.samples = << [Time |-> 1, tags |-> [k \in {"x"} |-> <<98>>]],
                          [Time |-> 2, tags |-> [k \in {"x"} |-> <<97>>]],
                          [Time |-> 1, tags |-> [k \in {"x"} |-> <<97>>]] >>
    /\ sorted[1].samples = << batch.samples[3], batch.samples[2], batch.samples[1] >>

\* ------------------------------------------- a further claim on the mappers
\* C32: every sample a mapping stage forwards has as many values as the header
\* it is forwarded with has fields, also after the header has changed.
C32_ValueCount ==
    \A k \in 1..Len(mapCalls) :
        LET c == mapCalls[k]
        IN  IF mapper.kind = "variance"
            THEN \A j \in 1..Len(c.outValues) : Len(c.outValues[j]) = Len(c.outHeader)
            ELSE Len(c.outValues) = Len(c.outHeader)

\* a filter that drops a field of the first header, then gets another header
C32_Witness ==
    /\ mapper.kind = "filter" /\ Len(mapCalls) = 2
    /\ mapCalls[1].header /= mapCalls[2].header
    /\ Len(mapCalls[1].outValues) < Len(mapCalls[1].values)
    /\ Len(mapCalls[2].outValues) > 0

\* ======================================================= tagging processor
\* src/steps/tags.go, lines 17-36 (the same code in src/unnamed/part_005)
\* the tag keys, the tag values of the incoming sample (120 = "x", 121 = "y")
\* and the templates: a literal, a reference ${a} or ${b}, and both
TagKeys == {"a", "b"}
Lit(str) == [ref |-> FALSE, key |-> "", str |-> str]
Ref(key) == [ref |-> TRUE, key |-> key, str |-> <<>>]
Templates ==
    { <<Lit(<<122>>)>>, <<Ref("a")>>, <<Ref("b")>>, <<Ref("b"), Lit(<<122>>)>> }
TagMaps == UNION { [D -> {<<120>>, <<121>>}] : D \in SUBSET TagKeys }
TagParams == UNION { [D -> Templates] : D \in SUBSET TagKeys }

\* TagTemplate.Resolve with MissingValue "" (line 22): every ${key} is
\* replaced by the value of the tag, or by "" when the sample has no such tag
RECURSIVE Resolve(_, _)
Resolve(template, tags) ==
    IF template = <<>> THEN <<>>
    ELSE LET t == Head(template)
             v == IF ~t.ref THEN t.str
                  ELSE IF t.key \in DOMAIN tags THEN tags[t.key] ELSE <<>>
         IN  v \o Resolve(Tail(template), tags)

\* Sample.SetTag
SetTag(tags, key, value) ==
    [k \in DOMAIN tags \cup {key} |-> IF k = key THEN value ELSE tags[k]]

\* the loop of lines 29-32, over the keys in the order the map yields them
RECURSIVE Process(_, _, _)
Process(templates, tags, order) ==
    IF order = <<>> THEN tags
    ELSE Process(templates,
                 SetTag(tags, Head(order), Resolve(templates[Head(order)], tags)),
                 Tail(order))

\* the orders in which range may yield the keys of the map
rangeOrders(templates) ==
    {o \in UNION {[1..n -> DOMAIN templates] : n \in {Cardinality(DOMAIN templates)}} :
        \A i, j \in DOMAIN o : i /= j => o[i] /= o[j]}

\* SimpleProcessor.Process of the tagging processor, lines 28-34
TagSample(order) ==
    /\ tagged = <<>>
    /\ tagged' = <<[order |-> order,
                    tags |-> Process(tagger.templates, tagger.tags, order)]>>
    /\ UNCHANGED <<tagger, batchVars, binVars, sinkVars, srcVars, epVars, mapVars,
                   headVars, sortVars, nodeVars, pcaVars>>

NextTag == \E order \in rangeOrders(tagger.templates) : TagSample(order)

\* NewTaggingProcessor with any parameters, and any incoming sample
InitTag ==
    /\ OthersIdle /\ PureIdle /\ NodeIdle /\ PcaIdle
    /\ tagger \in [templates : TagParams, tags : TagMaps]
    /\ tagged = <<>>

SpecTag == InitTag /\ [][NextTag]_vars

\* ------------------------------------------ claims on the tagging processor
\* C31: the returned sample has every configured key set to its template
\* resolved against the incoming sample, and every order of processing the
\* keys gives the same tags.
C31_TagsOrderFree ==
    tagged /= <<>> =>
        /\ \A k \in DOMAIN tagger.templates :
               tagged[1].tags[k] = Resolve(tagger.templates[k], tagger.tags)
        /\ \A o \in rangeOrders(tagger.templates) :
               Process(tagger.templates, tagger.tags, o) = tagged[1].tags

\* ------------------------------------ a further claim on the BatchProcessor
\* C33: once Close() has been called the flush worker leaves its loop (and
\* with it calls wg.Done()), and Close() returns, whether or not a sample was
\* ever received; the only other end is a batch step that panics, which ends
\* the process.
C33_CloseJoinsWorker ==
    (pcC = "closeWait") ~> ((pcW = "done" /\ pcC = "closed") \/ pcW = "panicked")

\* Close() returned and the worker ended without any sample received
C33_Witness ==
    /\ pcC = "closed" /\ pcW = "done"
    /\ inputs = <<>> /\ LastHeader = Nil

\* ------------------------------------------- a further claim on the TCP sink
\* C34: a Sample() that has reached the send to the channel returns.
C34_SampleReturns == (pcS = "send") ~> (pcS = "idle")

\* ================================================== merging MetricFilters
\* src/unnamed/part_004, lines 183-209
\* the filters that are merged: at most one include and one exclude regex
MergeLists == {<<>>} \cup {<<r>> : r \in Regexes}
MergeFilters ==
    { [NoMapper EXCEPT !.kind = "filter", !.include = i, !.exclude = e] :
          i \in MergeLists, e \in MergeLists }

\* MetricFilter.MergeProcessor, lines 201-209, for another MetricFilter
MergeProcessor(f, other) ==
    [f EXCEPT !.exclude = @ \o other.exclude, !.include = @ \o other.include]

\* One header is given to the pipeline 'first, second' and to the pipeline in
\* which second was merged into first: the fields each of them forwards
MergeHeader(header) ==
    /\ mapper.kind = "merge"
    /\ mapCalls = <<>>
    /\ LET one == filterIndices(mapper.first, header, 1).outFields
           two == filterIndices(mapper.second, one, 1).outFields
           merged == MergeProcessor(mapper.first, mapper.second)
       IN  mapCalls' = <<[header |-> header, chained |-> two,
                          merged |-> filterIndices(merged, header, 1).outFields]>>
    /\ UNCHANGED <<mapper, helper, batchVars, binVars, sinkVars, srcVars,
                   epVars, headVars, sortVars, lateVars>>

NextMerge == \E header \in MapHeaders : MergeHeader(header)

\* any two MetricFilters that follow each other in a pipeline
InitMerge ==
    /\ OthersIdle /\ EpIdle /\ HeadIdle /\ SortIdle /\ LateIdle
    /\ mapper \in [kind : {"merge"}, first : MergeFilters, second : MergeFilters]
    /\ helper = NewHelper /\ mapCalls = <<>>

SpecMerge == InitMerge /\ [][NextMerge]_vars

\* C35: the merged filter forwards the fields that the two filters forward
\* one after the other.
C35_MergePreserves ==
    \A k \in 1..Len(mapCalls) : mapCalls[k].merged = mapCalls[k].chained

\* ------------------------------------------ a further claim on the endpoints
\* the transports that are built in (lines 22-25)
BuiltinTypes == {<<"tcp">>, <<"listen">>, <<"file">>, <<"std">>}

\* C36: a description that ParseEndpointDescription or
\* ParseUrlEndpointDescription returns without error has a defined Type, and
\* IsCustomType exactly when that Type is not a built-in transport.
C36_CustomIffNotBuiltin ==
    (/\ parsed /= <<>>
     /\ parsed[1].fn \in {"ParseUrl", "ParseInput", "ParseOutput"}
     /\ Res.err = NoErr) =>
        /\ Res.Type /= <<>>
        /\ Res.IsCustomType <=> Res.Type \notin BuiltinTypes

\* ============================================= ParseSample on any data slice
\* src/analysis-pipeline/analysis_basic.go, lines 395-434
\* --------------------------------------------------------------- bounds
\* the bytes that follow a complete sample in the data slice
MaxExtra == 2

\* what may follow a sample: zeros and separators
Extras == UNION { [1..n -> {0, binary_separator}] : n \in 1..MaxExtra }

\* the data slices given to ParseSample with header h: a sample of that
\* header as WriteSample writes it, whole, cut short, or with bytes after it
ParseData(h) ==
    UNION { {SubSeq(WriteSample(smp, h), 1, n) : n \in 0..Len(WriteSample(smp, h))}
            \cup {WriteSample(smp, h) \o x : x \in Extras} :
            smp \in BinSamples(h) }

\* BinaryMarshaller.ParseSample(header, data), lines 395-434
BinParse ==
    /\ binPc = "parse"
    /\ LET p == ParseSample(rHeader[1], wire)
       IN  reads' = <<[kind |-> "parse", sample |-> p.sample, perr |-> p.err]>>
    /\ binPc' = "done"
    /\ UNCHANGED <<wire, written, cut, rpos, rHeader, batchVars, pureVars,
                   sinkVars, srcVars>>

NextParse == BinParse

\* any header and any data slice, not parsed yet
InitParse ==
    /\ Steps = <<>> /\ FlushTag = "" /\ FlushTimeout = 0 /\ sinkBad = 0
    /\ BatchIdle /\ SinkIdle /\ SourceIdle /\ PureIdle /\ LateIdle
    /\ \E h \in BinHeaders : rHeader = <<h>> /\ wire \in ParseData(h)
    /\ written = <<>> /\ binPc = "parse" /\ cut = 0 /\ rpos = 0 /\ reads = <<>>

SpecParse == InitParse /\ [][NextParse]_vars

\* the length the header requires of the data: the time, the tag string up to
\* its separator when the header is tagged, and the values; -1 when a tagged
\* sample has no separator
RequiredLen(h, data) ==
    LET index == IndexByte(From(data, timeBytes), binary_separator)
        values == Len(h.Fields) * valBytes
    IN  IF ~h.HasTags THEN timeBytes + values
        ELSE IF index < 0 THEN -1
        ELSE timeBytes + index + 1 + values

\* C37: ParseSample returns an error and no sample when the data is shorter
\* or longer than the header requires.
C37_WrongLengthIsError ==
    (binPc = "done" /\ reads /= <<>> /\ reads[1].kind = "parse"
        /\ Len(wire) /= RequiredLen(rHeader[1], wire)) =>
        reads[1].perr /= NoErr /\ reads[1].sample = <<>>

\* =================================================== DecisionMaker, one node
\* src/unnamed/part_001, lines 138-299
\* --------------------------------------------------------------- bounds
\* the latest sample time; times start at 1, 0 is the zero time
MaxNow == 3

\* the states of lines 17-23
StateUnknown == "unknown"
StateNormal == "normal"
StateAnomaly == "anomaly"
StateNoData == "no-data"
StateRecovering == "recovering"

\* the configurations of the engine
NodeConfigs ==
    [RecoveryFailedTimeout : {0, 2}, NoDataTimeout : {1},
     RecoverNoDataState : BOOLEAN]

\* DecisionMaker.Start, lines 120-132, for one node of the graph, with the
\* configuration of the engine; now is d.now, loopNow is the variable now of
\* loopHandleUpdates; anomaly is <<>> for nil; panic: the goroutine died
NewNode(c) ==
    [RecoveryFailedTimeout |-> c.RecoveryFailedTimeout,
     NoDataTimeout |-> c.NoDataTimeout,
     RecoverNoDataState |-> c.RecoverNoDataState,
     now |-> 0, loopNow |-> 0,
     LastUpdate |-> 0, LastState |-> StateUnknown,
     state |-> StateUnknown, stateChanged |-> 0,
     anomaly |-> <<>>, recoveries |-> <<>>, stored |-> 0, panic |-> FALSE]

\* the test of line 228: the recovery has not yet timed out
notTimedOutInclusive(n, tm) == tm - n.stateChanged <= n.RecoveryFailedTimeout
notTimedOut(n, tm) == tm - n.stateChanged < n.RecoveryFailedTimeout

\* runRecovery, lines 277-291; offered: PossibleRecoveries is not empty
runRecovery(n, tm, offered) ==
    IF ~offered THEN n
    ELSE [n EXCEPT !.recoveries =
              Append(@, [Started |-> tm, Ended |-> 0, Successful |-> FALSE])]

\* lines 250-252 and 258-259: recoveries[len(recoveries)-1] is marked ended;
\* the index is out of range when there is no recovery
endRecovery(n, tm, ok) ==
    IF n.recoveries = <<>> THEN [n EXCEPT !.panic = TRUE]
    ELSE [n EXCEPT !.recoveries[Len(n.recoveries)] =
              [@ EXCEPT !.Ended = tm, !.Successful = ok]]

\* setState, lines 235-243, and handleStateChanged, lines 245-275
RECURSIVE setState(_, _, _, _)
RECURSIVE handleStateChanged(_, _, _, _)
setState(n, newState, tm, offered) ==
    IF n.state = newState THEN n
    ELSE handleStateChanged([n EXCEPT !.state = newState, !.stateChanged = tm],
                            n.state, tm, offered)

handleStateChanged(n, oldState, tm, offered) ==
    LET newState == n.state
        \* lines 262-271
        recover(m) ==
            IF newState = StateAnomaly \/ m.RecoverNoDataState
            THEN setState([m EXCEPT !.anomaly =
                               IF @ = <<>> THEN <<[Start |-> tm]>> ELSE @],
                          StateRecovering, tm, offered)
            ELSE m
    IN  IF oldState = StateRecovering /\ newState = StateNormal
        THEN LET e == endRecovery(n, tm, TRUE)
             IN  IF e.panic THEN e
                 ELSE [e EXCEPT !.stored = @ + 1, !.anomaly = <<>>, !.recoveries = <<>>]
        ELSE IF oldState = StateRecovering /\ newState \in {StateAnomaly, StateNoData}
        THEN LET e == endRecovery(n, tm, FALSE)
             IN  IF e.panic THEN e ELSE recover(e)
        ELSE IF newState \in {StateAnomaly, StateNoData}
        THEN recover(n)
        ELSE IF newState = StateRecovering
        THEN runRecovery(n, tm, offered)
        ELSE n

\* stateUpdated, lines 224-233
stateUpdated(n, tm, offered) ==
    LET newState ==
            IF n.state = StateRecovering /\ n.LastState /= StateNormal
                  /\ notTimedOut(n, tm)
            THEN StateRecovering
            ELSE n.LastState
    IN  setState(n, newState, tm, offered)

\* progressTime, lines 169-180; the zero LastUpdate is ages ago
progressTime(n, tm) ==
    [n EXCEPT !.now = tm,
              !.LastState = IF n.LastUpdate = 0 \/ tm - n.LastUpdate > n.NoDataTimeout
                            THEN StateNoData ELSE @]

\* ----------------------------------------------------------------- actions
\* DecisionMaker.Sample, lines 138-161, with a sample of this node that
\* reports a normal or an anomalous state at the time t
NodeSample(normal, t) ==
    /\ ~node.panic
    /\ node' = progressTime([node EXCEPT !.LastUpdate = t,
                                         !.LastState = IF normal THEN StateNormal
                                                       ELSE StateAnomaly], t)
    /\ UNCHANGED <<nodeLog, batchVars, binVars, sinkVars, srcVars, epVars, mapVars,
                   headVars, sortVars, tagVars, pcaVars>>

\* DecisionMaker.Sample with a sample of another node, or of none
OtherSample(t) ==
    /\ ~node.panic
    /\ node' = progressTime(node, t)
    /\ UNCHANGED <<nodeLog, batchVars, binVars, sinkVars, srcVars, epVars, mapVars,
                   headVars, sortVars, tagVars, pcaVars>>

\* loopHandleUpdates, lines 185-193: waitForUpdate returns once d.now is
\* later than the time of the last round, then the node is updated
NodeUpdate(offered) ==
    /\ ~node.panic
    /\ node.loopNow < node.now
    /\ LET n == stateUpdated([node EXCEPT !.loopNow = node.now], node.now, offered)
       IN  /\ node' = n
           /\ nodeLog' = Append(nodeLog,
                  [now |-> node.now, offered |-> offered, last |-> node.LastState,
                   old |-> node, new |-> n])
    /\ UNCHANGED <<batchVars, binVars, sinkVars, srcVars, epVars, mapVars,
                   headVars, sortVars, tagVars, pcaVars>>

\* the samples arrive in the order of their times
SampleTimes == {t \in 1..MaxNow : t >= node.now}

NextNode ==
    \/ \E normal \in BOOLEAN, t \in SampleTimes : NodeSample(normal, t)
    \/ \E t \in SampleTimes : OtherSample(t)
    \/ \E offered \in BOOLEAN : NodeUpdate(offered)

InitNode ==
    /\ OthersIdle /\ PureIdle /\ TagIdle /\ PcaIdle
    /\ node \in {NewNode(c) : c \in NodeConfigs}
    /\ nodeLog = <<>>

SpecNode == InitNode /\ [][NextNode]_vars

\* --------------------------------------------------- claims on the node
\* the updates of a node that was recovering and is not reported normal
Stuck(e) == e.old.state = StateRecovering /\ e.last /= StateNormal
Early(e) == e.now - e.old.stateChanged < e.old.RecoveryFailedTimeout
\* the update ended the last recovery and started a new one
Restarted(e) ==
    /\ ~e.new.panic
    /\ e.new.state = StateRecovering /\ e.new.stateChanged = e.now
    /\ Len(e.new.recoveries) = Len(e.old.recoveries) + 1
    /\ e.new.recoveries[Len(e.old.recoveries)].Ended = e.now
    /\ e.new.recoveries[Len(e.new.recoveries)].Started = e.now
\* nothing changed but the time of the loop
Stayed(e) == e.new = [e.old EXCEPT !.loopNow = e.now]

C39_RecoveringHasRecovery ==
    /\ ~node.panic
    /\ node.state = StateRecovering =>
           node.anomaly /= <<>> /\ node.recoveries /= <<>>

\* ---------------------------------------------------------------------
\* PCA batch processing (src/unnamed/part_000).
\*
\* stat.PrincipalComponents is an external library: its result (ok, the raw
\* variances in descending order, the matrix of component vectors) is an input
\* of the model.  Variances are whole numbers and the contained variance is a
\* percentage, compared by cross-multiplication.  A pointer to a sample is a
\* sequence: empty for nil, one element otherwise.
\* ---------------------------------------------------------------------

MaxPcaBatch == 2
MaxCols == 2
MaxVariance == 2

\* line 16, in percent
DefaultContainedVariance == 99

PcaValues == {0, 1}
PcaTags == {"a", "b"}

PcaSamples(cols) == [Values : [1..cols -> PcaValues], Tags : PcaTags]

PcaBatches(cols) ==
    UNION {[1..n -> PcaSamples(cols)] : n \in 0..MaxPcaBatch}

RawVariances(cols) ==
    {v \in [1..cols -> 0..MaxVariance] :
        \A i \in 1..cols : \A j \in 1..cols : i < j => v[i] >= v[j]}

ComponentVectors(cols) ==
    {[i \in 1..cols |-> [j \in 1..cols |-> IF q[i] = j THEN 1 ELSE 0]] :
        q \in Permutations(1..cols)}

NilSample == <<>>

RECURSIVE SumTo(_, _)
SumTo(v, n) == IF n = 0 THEN 0 ELSE v[n] + SumTo(v, n - 1)

\* lines 78-87 over the contained variances of lines 64-71 (raw / sum); with a
\* sum of 0 every contained variance is NaN and no comparison succeeds
RECURSIVE ComponentsContainingVariance(_, _, _)
ComponentsContainingVariance(raw, variance, count) ==
    IF count = Len(raw) THEN count
    ELSE IF SumTo(raw, count + 1) * 100 > variance * SumTo(raw, Len(raw))
         THEN count + 1
         ELSE ComponentsContainingVariance(raw, variance, count + 1)

\* lines 120-129 with the view of line 112: vec times the first comp columns
Vector(vectors, comp, vec) ==
    [j \in 1..comp |-> SumTo([i \in 1..Len(vec) |-> vec[i] * vectors[i][j]], Len(vec))]

\* lines 43-52; s is a pointer
SetSampleValues(s, values) ==
    IF s = NilSample
    THEN [panic |-> TRUE, sample |-> NilSample]
    ELSE [panic |-> FALSE, sample |-> <<[s[1] EXCEPT !.Values = values]>>]

\* lines 131-136: the named result is nil when SetSampleValues receives it
ProjectSample(vectors, comp, sample) ==
    LET result == NilSample
        set == SetSampleValues(result, Vector(vectors, comp, sample.Values))
    IN  IF set.panic THEN set
        ELSE [panic |-> FALSE,
              sample |-> <<[set.sample[1] EXCEPT !.Tags = sample.Tags]>>]

Itoa(i) == <<"0", "1", "2", "3", "4">>[i + 1]

\* lines 142-175
PcaProcessBatch ==
    /\ pcaOut.state = "none"
    /\ LET variance == IF pca.ContainedVariance <= 0
                       THEN DefaultContainedVariance
                       ELSE pca.ContainedVariance
           comp == ComponentsContainingVariance(pca.RawVariances, variance, 0)
           outs == [i \in 1..Len(pca.samples) |->
                       ProjectSample(pca.Vectors, comp, pca.samples[i])]
       IN  pcaOut' =
              IF ~pca.ok
              THEN [state |-> "returned", err |-> TRUE,
                    header |-> pca.header, samples |-> <<>>]
              ELSE IF \E i \in 1..Len(outs) : outs[i].panic
              THEN [state |-> "panic", err |-> FALSE,
                    header |-> pca.header, samples |-> <<>>]
              ELSE [state |-> "returned", err |-> FALSE,
                    header |-> [HasTags |-> pca.header.HasTags,
                                Fields |-> [i \in 1..comp |-> "component" \o Itoa(i - 1)]],
                    samples |-> [i \in 1..Len(outs) |-> outs[i].sample]]
    /\ UNCHANGED <<pca, batchVars, binVars, sinkVars, srcVars, epVars, mapVars,
                   headVars, sortVars, tagVars, nodeVars>>

NextPca == PcaProcessBatch

InitPca ==
    /\ OthersIdle /\ PureIdle /\ TagIdle /\ NodeIdle
    /\ \E cols \in 1..MaxCols :
          pca \in [header : [HasTags : BOOLEAN, Fields : {cols}],
                   samples : PcaBatches(cols),
                   ContainedVariance : {0, 50},
                   ok : BOOLEAN,
                   RawVariances : RawVariances(cols),
                   Vectors : ComponentVectors(cols)]
    /\ pcaOut = [state |-> "none", err |-> FALSE, header |-> pca.header,
                 samples |-> <<>>]

SpecPca == InitPca /\ [][NextPca]_vars

\* C40: when the model can be computed, ProcessBatch returns (it does not
\* fail on a nil sample) a header of comp fields component0 .. component(comp-1)
\* and one non-nil output sample per input sample, with comp values and the
\* tags of the input sample.
C40_FreshSamples ==
    (pcaOut.state /= "none" /\ pca.ok) =>
        /\ pcaOut.state = "returned"
        /\ ~pcaOut.err
        /\ \A i \in 1..Len(pcaOut.header.Fields) :
               pcaOut.header.Fields[i] = "component" \o Itoa(i - 1)
        /\ Len(pcaOut.samples) = Len(pca.samples)
        /\ \A i \in 1..Len(pcaOut.samples) :
               /\ pcaOut.samples[i] /= NilSample
               /\ Len(pcaOut.samples[i][1].Values) = Len(pcaOut.header.Fields)
               /\ pcaOut.samples[i][1].Tags = pca.samples[i].Tags
====
